---- MODULE Spec2Model ----
(***************************************************************************)
(* A model of the dynamic value and object runtime of strada-lang          *)
(* (src/runtime/strada_runtime.c, src/runtime/strada_runtime.h): the       *)
(* package registry and method dispatch, the try-stack and the current     *)
(* exception, the reference-counted values with DESTROY dispatch, the      *)
(* chained hash table and closures.                                        *)
(*                                                                         *)
(* C pointers: a NULL char* / function pointer is the string NULL, a NULL  *)
(* StradaValue* is the value id 0.                                         *)
(***************************************************************************)
EXTENDS Integers, Sequences, FiniteSets, TLC

VARIABLES
    \* ---- object system (strada_runtime.c 6139-6585)
    oop_packages,      \* OopPackage oop_packages[] up to oop_package_count
    oop_initialized,   \* static int oop_initialized
    oop_destroying,    \* static int oop_destroying
    \* ---- values (struct StradaValue, strada_runtime.h 75-98), by value id
    typ,               \* sv->type; "NONE" for an id malloc never returned
    refcount,          \* sv->refcount
    rv,                \* sv->value.rv of a STRADA_REF (0 is NULL)
    iv,                \* sv->value.iv of a STRADA_INT
    blessed_package,   \* sv->blessed_package (NULL or a package name)
    \* ---- exceptions (strada_runtime.c 1886-1942, strada_runtime.h 264-283)
    strada_try_stack,      \* StradaTryContext strada_try_stack[64]: [buf, active]
    strada_try_depth,      \* int strada_try_depth
    strada_exception_msg,  \* char *strada_exception_msg (NULL or a C string)
    live_frames,           \* history: the frames pushed and not yet popped
    last_throw,            \* history: the last throw, its payload and its target
    \* ---- storage and destructors (strada_runtime.c 231-240, 2763-2860, 6558-6585)
    released,          \* history: how many times free(sv) ran on the value
    free_value_log,    \* history: per value, one entry per strada_free_value(sv)
    destroy_calls,     \* history: how many times DESTROY was invoked on the value
    held,              \* references to the value owned by the program's variables
    stack,             \* the C stack below the running DESTROY body, top first
    \* ---- one hash (strada_runtime.c 56, 704-850; strada_runtime.h 107-120)
    strada_default_hash_capacity,  \* static size_t strada_default_hash_capacity
    hv,                \* the StradaHash: [buckets, num_buckets, num_entries, refcount]
    hash_model,        \* history: the key-to-value map the calls so far describe
    \* ---- closures (strada_runtime.c 3674-3807; strada_runtime.h 44-50)
    frame_var,         \* the enclosing frame's variables: the value each points to
    closure_of,        \* per value id: the StradaClosure of a STRADA_CLOSURE value
    created_with,      \* history: the values the captured variables had at creation
    last_closure_call, \* history: what the last strada_closure_call passed
    \* ---- string payloads (struct StradaValue, strada_runtime.h 75-98), by value id
    pv,                \* sv->value.pv of a STRADA_STR: its bytes, NoString for NULL
    struct_size,       \* sv->struct_size
    \* ---- arrays (strada_runtime.c 53, 390-498)
    strada_default_array_capacity,   \* static size_t strada_default_array_capacity
    av,                \* the StradaArray: [elements, size, capacity, refcount]
    \* ---- native threads sharing a value (strada_runtime.c 231-240), by thread
    thread_pc,         \* where the thread is: "idle", in "incref", in "decref", before "free"
    thread_owns,       \* references the thread owns: initial ones + its increfs - its decrefs
    count_at_call,     \* history: sv->refcount when the thread entered the call it is in
    sync_result,       \* what __sync_sub_and_fetch returned to the thread
    freed_by,          \* history: the threads that called strada_free_value, in order
    \* ---- thread handles (strada_runtime.c 3812-3871), by handle
    st,                \* the StradaThread: [alloc, closure, result, run, detached]
    thread_val,        \* the handle value: [created, type, ptr] (ptr 0 is NULL)
    join_returns,      \* history: what strada_thread_join returned for the handle, call by call
    \* ---- threads sharing an array (strada_runtime.c 2862-2874, 4952-4968), by thread
    share_pc,          \* where the thread is in strada_new_array_from_av / strada_free_array
    loaded,            \* the av->refcount the thread read for its ++ or --
    wraps,             \* the Values wrapping the array that the thread owns
    av_freed,          \* history: how many times free(av) ran
    \* ---- a method lookup or isa check in progress (strada_runtime.c 6375-6480)
    lk_op,             \* "none", or the entry point running: "can", "isa"
    lk_arg,            \* its method name or target package
    lk_stack,          \* the recursion, innermost first: [pkg, i, vc] per call in its parent
                       \* loop, vc (history) being visited_count when the call was made
    lk_visited,        \* const char *visited[64] up to visited_count
    lk_result,         \* what the last finished entry point returned
    \* ---- threads in try regions (strada_runtime.c 1886-1935, strada_runtime.h 281-283), by thread
    exc_pc,            \* "run" in or outside its try regions, "handler" after a longjmp, "lost"
    exc_nest,          \* how many frames the thread has pushed and not popped
    caught,            \* what strada_get_exception last returned to the thread
    \* containers that Values share
    hv_freed,          \* history: how many times free(hv) ran
    orphaned,          \* history: containers allocated that no pointer reaches
    \* ---- the process
    exit_status,       \* -1 while the process runs, else the status of exit()
    call               \* the native function the last dispatch invoked

NULL == "NULL"

\* names of packages and methods, and native function pointers, used as inputs
PkgNames == {"A", "B", "C", "D"}
MethodNames == {"m", "n"}
Funcs == {"fA", "fB", "fC"}

RangeOf(s) == {s[i] : i \in DOMAIN s}

(***************************************************************************)
(* Package registry                                                        *)
(***************************************************************************)

\* oop_find_package: index of the first package of that name, 0 if none
oop_find_package(pkgs, name) ==
    LET hits == {i \in DOMAIN pkgs : pkgs[i].name = name}
    IN  IF hits = {} THEN 0 ELSE CHOOSE i \in hits : \A j \in hits : i <= j

OOP_MAX_PACKAGES == 256
OOP_MAX_METHODS == 256
OOP_MAX_PARENTS == 16
OOP_VISITED_MAX == 64

\* oop_get_or_create_package exits when a new package does not fit
PackageOverflow(pkgs, name) ==
    oop_find_package(pkgs, name) = 0 /\ Len(pkgs) >= OOP_MAX_PACKAGES

\* oop_get_or_create_package: the registry afterwards (when it does not exit)
oop_get_or_create_package(pkgs, name) ==
    IF oop_find_package(pkgs, name) # 0 THEN pkgs
    ELSE Append(pkgs, [name |-> name, parents |-> <<>>, methods |-> <<>>])

\* strada_oop_init: memset of the registry, once
strada_oop_init(pkgs, initialized) == IF initialized THEN pkgs ELSE <<>>

\* index of the first method of that name in a method table, 0 if none
MethodIndex(methods, name) ==
    LET hits == {i \in DOMAIN methods : methods[i].name = name}
    IN  IF hits = {} THEN 0 ELSE CHOOSE i \in hits : \A j \in hits : i <= j

(***************************************************************************)
(* Method resolution                                                       *)
(***************************************************************************)

\* the parents visited from the last to the first
ParentOrderReversed(parents) ==
    [i \in 1..Len(parents) |-> parents[Len(parents) + 1 - i]]

\* the order in which the loops over pkg->parents[] visit the parents
ParentOrder(parents) == parents

\* the visited[] array: a package is recorded while there is room
MarkVisited(visited, package) ==
    IF Len(visited) < OOP_VISITED_MAX THEN Append(visited, package) ELSE visited

RECURSIVE oop_lookup_method_in(_, _, _, _)
RECURSIVE LookupInParents(_, _, _, _, _)
\* oop_lookup_method_in: [func, visited], visited being the array afterwards
oop_lookup_method_in(pkgs, package, method, visited) ==
    IF package = NULL \/ method = NULL \/ package = ""
    THEN [func |-> NULL, visited |-> visited]
    ELSE IF \E i \in DOMAIN visited : visited[i] = package
    THEN [func |-> NULL, visited |-> visited]
    ELSE LET v2 == MarkVisited(visited, package)
             k == oop_find_package(pkgs, package)
         IN  IF k = 0 THEN [func |-> NULL, visited |-> v2]
             ELSE LET mi == MethodIndex(pkgs[k].methods, method)
                  IN  IF mi # 0
                      THEN [func |-> pkgs[k].methods[mi].func, visited |-> v2]
                      ELSE LookupInParents(pkgs, ParentOrder(pkgs[k].parents), 1,
                                           method, v2)

LookupInParents(pkgs, parents, i, method, visited) ==
    IF i > Len(parents) THEN [func |-> NULL, visited |-> visited]
    ELSE LET r == oop_lookup_method_in(pkgs, parents[i], method, visited)
         IN  IF r.func # NULL THEN r
             ELSE LookupInParents(pkgs, parents, i + 1, method, r.visited)

\* oop_lookup_method with only the package's own table (no inheritance)
oop_lookup_method_own(pkgs, initialized, package, method) ==
    LET k == oop_find_package(pkgs, package)
        mi == IF k = 0 THEN 0 ELSE MethodIndex(pkgs[k].methods, method)
    IN  IF mi = 0 THEN NULL ELSE pkgs[k].methods[mi].func

\* oop_lookup_method: the function pointer, or NULL
oop_lookup_method(pkgs, initialized, package, method) ==
    IF package = NULL \/ method = NULL THEN NULL
    ELSE IF ~initialized THEN NULL
    ELSE oop_lookup_method_in(pkgs, package, method, <<>>).func

RECURSIVE oop_method_lookup_package_in(_, _, _, _)
RECURSIVE LookupPackageInParents(_, _, _, _, _)
\* oop_method_lookup_package_in: [pkg, visited]
oop_method_lookup_package_in(pkgs, package, method, visited) ==
    IF package = NULL \/ method = NULL \/ package = ""
    THEN [pkg |-> NULL, visited |-> visited]
    ELSE IF \E i \in DOMAIN visited : visited[i] = package
    THEN [pkg |-> NULL, visited |-> visited]
    ELSE LET v2 == MarkVisited(visited, package)
             k == oop_find_package(pkgs, package)
         IN  IF k = 0 THEN [pkg |-> NULL, visited |-> v2]
             ELSE IF MethodIndex(pkgs[k].methods, method) # 0
             THEN [pkg |-> package, visited |-> v2]
             ELSE LookupPackageInParents(pkgs, ParentOrder(pkgs[k].parents), 1,
                                         method, v2)

LookupPackageInParents(pkgs, parents, i, method, visited) ==
    IF i > Len(parents) THEN [pkg |-> NULL, visited |-> visited]
    ELSE LET r == oop_method_lookup_package_in(pkgs, parents[i], method, visited)
         IN  IF r.pkg # NULL THEN r
             ELSE LookupPackageInParents(pkgs, parents, i + 1, method, r.visited)

\* strada_method_lookup_package: the name of the package that has the method
strada_method_lookup_package(pkgs, initialized, package, method) ==
    IF package = NULL \/ method = NULL THEN NULL
    ELSE IF ~initialized THEN NULL
    ELSE oop_method_lookup_package_in(pkgs, package, method, <<>>).pkg

RECURSIVE oop_isa_check(_, _, _, _)
RECURSIVE IsaInParents(_, _, _, _, _)
\* oop_isa_check: [res, visited]
oop_isa_check(pkgs, current_pkg, target, visited) ==
    IF current_pkg = NULL \/ current_pkg = ""
    THEN [res |-> FALSE, visited |-> visited]
    ELSE IF current_pkg = target THEN [res |-> TRUE, visited |-> visited]
    ELSE IF \E i \in DOMAIN visited : visited[i] = current_pkg
    THEN [res |-> FALSE, visited |-> visited]
    ELSE LET v2 == MarkVisited(visited, current_pkg)
             k == oop_find_package(pkgs, current_pkg)
         IN  IF k = 0 THEN [res |-> FALSE, visited |-> v2]
             ELSE IsaInParents(pkgs, ParentOrder(pkgs[k].parents), 1, target, v2)

IsaInParents(pkgs, parents, i, target, visited) ==
    IF i > Len(parents) THEN [res |-> FALSE, visited |-> visited]
    ELSE LET r == oop_isa_check(pkgs, parents[i], target, visited)
         IN  IF r.res THEN r
             ELSE IsaInParents(pkgs, parents, i + 1, target, r.visited)

\* strada_isa that looks at the blessed package and its direct parents only
strada_isa_direct(obj, package) ==
    IF obj = 0 \/ blessed_package[obj] = NULL THEN FALSE
    ELSE LET k == oop_find_package(oop_packages, blessed_package[obj])
         IN  \/ blessed_package[obj] = package
             \/ k # 0 /\ \E i \in DOMAIN oop_packages[k].parents :
                            oop_packages[k].parents[i] = package

\* strada_isa on the value obj (0 is a NULL obj), as a state function
strada_isa(obj, package) ==
    IF obj = 0 \/ package = NULL THEN FALSE
    ELSE IF blessed_package[obj] = NULL THEN FALSE
    ELSE IF ~oop_initialized THEN FALSE
    ELSE oop_isa_check(oop_packages, blessed_package[obj], package, <<>>).res

\* strada_can that forgets the parents
strada_can_own(obj, method) ==
    IF obj = 0 \/ blessed_package[obj] = NULL THEN FALSE
    ELSE oop_lookup_method_own(oop_packages, oop_initialized,
                               blessed_package[obj], method) # NULL

\* strada_can on the value obj, as a state function
strada_can(obj, method) ==
    IF obj = 0 \/ method = NULL THEN FALSE
    ELSE IF blessed_package[obj] = NULL THEN FALSE
    ELSE IF ~oop_initialized THEN FALSE
    ELSE oop_lookup_method(oop_packages, oop_initialized,
                           blessed_package[obj], method) # NULL

(***************************************************************************)
(* Strings are C strings: sequences of character codes, ended by the first *)
(* NUL when copied with strdup                                             *)
(***************************************************************************)

NoString == <<-1>>   \* a NULL char*

\* strdup / strlen: the bytes before the first NUL
RECURSIVE CString(_)
CString(bytes) ==
    IF bytes = <<>> \/ Head(bytes) = 0 THEN <<>>
    ELSE <<Head(bytes)>> \o CString(Tail(bytes))

STRADA_MAX_TRY_DEPTH == 64

NoThrow == [op |-> "none", payload |-> [type |-> "UNDEF"], target |-> NULL,
            nearest |-> NULL]

\* the exception globals as the runtime starts
ExcInitial ==
    /\ strada_try_stack = [i \in 0..(STRADA_MAX_TRY_DEPTH - 1) |->
                              [buf |-> NULL, active |-> 0]]
    /\ strada_try_depth = 0
    /\ strada_exception_msg = NoString
    /\ live_frames = <<>>
    /\ last_throw = NoThrow

\* nothing allocated, nothing being freed
RcInitial ==
    /\ released = <<>>
    /\ free_value_log = <<>>
    /\ destroy_calls = <<>>
    /\ held = <<>>
    /\ stack = <<>>

DEFAULT_HASH_CAPACITY == 16

\* NULL for a StradaHash*: no hash allocated
NoHash == [buckets |-> <<>>, num_buckets |-> 0, num_entries |-> 0, refcount |-> 0]

\* the keys (C strings) the program uses: "a", "b", "e", "i" and ""; "a" and
\* "e" share a bucket in a table of 4, "a" and "i" in a table of 8
Keys == {<<97>>, <<98>>, <<101>>, <<105>>, <<>>}

\* no hash created, default capacity as initialised
HashInitial ==
    /\ strada_default_hash_capacity = DEFAULT_HASH_CAPACITY
    /\ hv = NoHash
    /\ hash_model = [k \in Keys |-> 0]

\* the variables of the enclosing frame
FrameVars == {"x", "y"}

NoClosure == [func_ptr |-> NULL, param_count |-> 0, capture_count |-> 0,
              captures |-> <<>>]
NoClosureCall == [closure |-> 0, argc |-> 0, called |-> NULL, captures |-> <<>>]

\* no variable bound, no closure created
ClosInitial ==
    /\ frame_var = [x \in FrameVars |-> 0]
    /\ closure_of = <<>>
    /\ created_with = <<>>
    /\ last_closure_call = NoClosureCall

\* no string payload
StrInitial ==
    /\ pv = <<>>
    /\ struct_size = <<>>

DEFAULT_ARRAY_CAPACITY == 8

\* NULL for a StradaArray*: no array allocated
NoArray == [elements |-> <<>>, size |-> 0, capacity |-> 0, refcount |-> 0]

\* no array created, default capacity as initialised
ArrInitial ==
    /\ strada_default_array_capacity = DEFAULT_ARRAY_CAPACITY
    /\ av = NoArray

\* a single thread, sharing nothing
ThrInitial ==
    /\ thread_pc = <<>>
    /\ thread_owns = <<>>
    /\ count_at_call = <<>>
    /\ sync_result = <<>>
    /\ freed_by = <<>>

\* no thread created
JoinInitial ==
    /\ st = <<>>
    /\ thread_val = <<>>
    /\ join_returns = <<>>

\* no array shared between threads
ShareInitial ==
    /\ share_pc = <<>>
    /\ loaded = <<>>
    /\ wraps = <<>>
    /\ av_freed = 0

\* no lookup running
LookInitial ==
    /\ lk_op = "none"
    /\ lk_arg = NULL
    /\ lk_stack = <<>>
    /\ lk_visited = <<>>
    /\ lk_result = -1

\* a single thread, outside every try region
HandlerInitial ==
    /\ exc_pc = <<>>
    /\ exc_nest = <<>>
    /\ caught = <<>>

\* no container freed, none lost
AliasInitial ==
    /\ hv_freed = 0
    /\ orphaned = 0

(***************************************************************************)
(* The process and the registry operations                                 *)
(***************************************************************************)

NoCall == [op |-> "none", recv |-> 0, from |-> NULL, method |-> NULL, func |-> NULL]

Running == exit_status = -1
\* the program is between runtime calls, no dispatched method is running
Idle == Running /\ call = NoCall

heapVars == <<typ, refcount, rv, iv, blessed_package>>
oopVars == <<oop_packages, oop_initialized, oop_destroying>>
excVars == <<strada_try_stack, strada_try_depth, strada_exception_msg,
             live_frames, last_throw>>
rcVars == <<released, free_value_log, destroy_calls, held, stack>>
hashVars == <<strada_default_hash_capacity, hv, hash_model>>
closVars == <<frame_var, closure_of, created_with, last_closure_call>>
strVars == <<pv, struct_size>>
arrVars == <<strada_default_array_capacity, av>>
thrVars == <<thread_pc, thread_owns, count_at_call, sync_result, freed_by>>
joinVars == <<st, thread_val, join_returns>>
shareVars == <<share_pc, loaded, wraps, av_freed>>
lookVars == <<lk_op, lk_arg, lk_stack, lk_visited, lk_result>>
handlerVars == <<exc_pc, exc_nest, caught>>
aliasVars == <<hv_freed, orphaned>>
vars == <<oop_packages, oop_initialized, oop_destroying,
          typ, refcount, rv, iv, blessed_package,
          strada_try_stack, strada_try_depth, strada_exception_msg,
          live_frames, last_throw,
          released, free_value_log, destroy_calls, held, stack,
          strada_default_hash_capacity, hv, hash_model,
          frame_var, closure_of, created_with, last_closure_call,
          pv, struct_size,
          strada_default_array_capacity, av,
          thread_pc, thread_owns, count_at_call, sync_result, freed_by,
          st, thread_val, join_returns,
          share_pc, loaded, wraps, av_freed,
          lk_op, lk_arg, lk_stack, lk_visited, lk_result,
          exc_pc, exc_nest, caught,
          hv_freed, orphaned,
          exit_status, call>>

\* model bounds on the size of the registry
MaxEdges == 4
MaxMethodEntries == 2

RECURSIVE SumLen(_, _)
SumLen(pkgs, f) ==
    IF pkgs = <<>> THEN 0
    ELSE Len(IF f = "parents" THEN pkgs[1].parents ELSE pkgs[1].methods)
         + SumLen(Tail(pkgs), f)

\* void strada_inherit(const char *child, const char *parent)
strada_inherit(child, parent) ==
    /\ Idle
    /\ LET p0 == strada_oop_init(oop_packages, oop_initialized)
           p1 == oop_get_or_create_package(p0, child)
           k == oop_find_package(p1, child)
           already == \E i \in DOMAIN p1[k].parents : p1[k].parents[i] = parent
           p2 == [p1 EXCEPT ![k].parents = Append(@, parent)]
           p3 == oop_get_or_create_package(p2, parent)
       IN  /\ oop_initialized' = TRUE
           /\ IF PackageOverflow(p0, child)
              THEN oop_packages' = p0 /\ exit_status' = 1
              ELSE IF already
              THEN oop_packages' = p1 /\ UNCHANGED exit_status
              ELSE IF Len(p1[k].parents) >= OOP_MAX_PARENTS
              THEN oop_packages' = p1 /\ exit_status' = 1
              ELSE IF PackageOverflow(p2, parent)
              THEN oop_packages' = p2 /\ exit_status' = 1
              ELSE oop_packages' = p3 /\ UNCHANGED exit_status
    /\ UNCHANGED <<oop_destroying, heapVars, excVars, rcVars, hashVars, closVars, call, strVars, arrVars, thrVars, joinVars, shareVars, lookVars, handlerVars, aliasVars>>

\* void strada_method_register(const char *package, const char *name, StradaMethod func)
strada_method_register(package, name, func) ==
    /\ Idle
    /\ LET p0 == strada_oop_init(oop_packages, oop_initialized)
           p1 == oop_get_or_create_package(p0, package)
           k == oop_find_package(p1, package)
           mi == MethodIndex(p1[k].methods, name)
       IN  /\ oop_initialized' = TRUE
           /\ IF PackageOverflow(p0, package)
              THEN oop_packages' = p0 /\ exit_status' = 1
              ELSE IF Len(p1[k].methods) >= OOP_MAX_METHODS
              THEN oop_packages' = p1 /\ exit_status' = 1
              ELSE IF mi # 0
              THEN /\ oop_packages' = [p1 EXCEPT ![k].methods[mi].func = func]
                   /\ UNCHANGED exit_status
              ELSE /\ oop_packages' = [p1 EXCEPT ![k].methods =
                                          Append(@, [name |-> name, func |-> func])]
                   /\ UNCHANGED exit_status
    /\ UNCHANGED <<oop_destroying, heapVars, excVars, rcVars, hashVars, closVars, call, strVars, arrVars, thrVars, joinVars, shareVars, lookVars, handlerVars, aliasVars>>

\* StradaValue* strada_bless(StradaValue *ref, const char *package)
strada_bless(ref, package) ==
    /\ Idle
    /\ typ[ref] # "NONE"
    /\ LET p0 == strada_oop_init(oop_packages, oop_initialized)
       IN  /\ oop_initialized' = TRUE
           /\ IF PackageOverflow(p0, package)
              THEN /\ oop_packages' = p0 /\ exit_status' = 1
                   /\ UNCHANGED blessed_package
              ELSE /\ oop_packages' = oop_get_or_create_package(p0, package)
                   /\ blessed_package' = [blessed_package EXCEPT ![ref] = package]
                   /\ UNCHANGED exit_status
    /\ UNCHANGED <<oop_destroying, typ, refcount, rv, iv, excVars, rcVars, hashVars, closVars, call, strVars, arrVars, thrVars, joinVars, shareVars, lookVars, handlerVars, aliasVars>>

\* StradaValue* strada_method_call(StradaValue *obj, const char *method, StradaValue *args)
\* the process exits, or control passes to func(obj, args)
strada_method_call(obj, method) ==
    /\ Idle
    /\ LET func == oop_lookup_method(oop_packages, TRUE, blessed_package[obj], method)
           fatal == [op |-> "method_call", recv |-> obj, from |-> NULL,
                     method |-> method, func |-> NULL]
       IN  IF obj = 0
           THEN call' = fatal /\ exit_status' = 1 /\ UNCHANGED oopVars
           ELSE IF blessed_package[obj] = NULL
           THEN call' = fatal /\ exit_status' = 1 /\ UNCHANGED oopVars
           ELSE /\ oop_packages' = strada_oop_init(oop_packages, oop_initialized)
                /\ oop_initialized' = TRUE
                /\ UNCHANGED oop_destroying
                /\ IF func = NULL
                   THEN call' = fatal /\ exit_status' = 1
                   ELSE call' = [fatal EXCEPT !.func = func] /\ UNCHANGED exit_status
    /\ UNCHANGED <<heapVars, excVars, rcVars, hashVars, closVars, strVars, arrVars, thrVars, joinVars, shareVars, lookVars, handlerVars, aliasVars>>

\* a SUPER:: search that starts at the receiver's class
SuperSearchPackageOfReceiver(obj, from_package) == blessed_package[obj]

\* the package whose parents strada_super_call searches
SuperSearchPackage(obj, from_package) == from_package

\* StradaValue* strada_super_call(obj, from_package, method, args)
strada_super_call(obj, from_package, method) ==
    /\ Idle
    /\ LET fatal == [op |-> "super_call", recv |-> obj, from |-> from_package,
                     method |-> method, func |-> NULL]
           pkgs == strada_oop_init(oop_packages, oop_initialized)
           k == oop_find_package(pkgs, SuperSearchPackage(obj, from_package))
           parents == ParentOrder(pkgs[k].parents)
           hits == {i \in DOMAIN parents :
                       oop_lookup_method(pkgs, TRUE, parents[i], method) # NULL}
           first == CHOOSE i \in hits : \A j \in hits : i <= j
       IN  IF obj = 0
           THEN call' = fatal /\ exit_status' = 1 /\ UNCHANGED oopVars
           ELSE IF blessed_package[obj] = NULL
           THEN call' = fatal /\ exit_status' = 1 /\ UNCHANGED oopVars
           ELSE /\ oop_packages' = pkgs
                /\ oop_initialized' = TRUE
                /\ UNCHANGED oop_destroying
                /\ IF k = 0 \/ hits = {}
                   THEN call' = fatal /\ exit_status' = 1
                   ELSE /\ call' = [fatal EXCEPT !.func =
                               oop_lookup_method(pkgs, TRUE, parents[first], method)]
                        /\ UNCHANGED exit_status
    /\ UNCHANGED <<heapVars, excVars, rcVars, hashVars, closVars, strVars, arrVars, thrVars, joinVars, shareVars, lookVars, handlerVars, aliasVars>>

\* the dispatched native function returns to the caller of the dispatch
MethodReturn ==
    /\ Running
    /\ call # NoCall
    /\ call' = NoCall
    /\ UNCHANGED <<oopVars, heapVars, excVars, rcVars, hashVars, closVars, exit_status, strVars, arrVars, thrVars, joinVars, shareVars, lookVars, handlerVars, aliasVars>>

(***************************************************************************)
(* The object system on its own: one INT (id 1) and one REF to it (id 2)   *)
(***************************************************************************)

OopVals == {1, 2}

InitOOP ==
    /\ oop_packages = <<>>
    /\ oop_initialized = FALSE
    /\ oop_destroying = 0
    /\ typ = [v \in OopVals |-> IF v = 1 THEN "INT" ELSE "REF"]
    /\ refcount = [v \in OopVals |-> IF v = 1 THEN 2 ELSE 1]
    /\ rv = [v \in OopVals |-> IF v = 1 THEN 0 ELSE 1]
    /\ iv = [v \in OopVals |-> IF v = 1 THEN 7 ELSE 0]
    /\ blessed_package = [v \in OopVals |-> NULL]
    /\ exit_status = -1
    /\ call = NoCall
    /\ ExcInitial
    /\ AliasInitial
    /\ HandlerInitial
    /\ LookInitial
    /\ ShareInitial
    /\ JoinInitial
    /\ ThrInitial
    /\ ArrInitial
    /\ StrInitial
    /\ RcInitial
    /\ HashInitial
    /\ ClosInitial

\* The declarations the program may execute, in any order and any number:
\* the diamond A, B(A), C(A), D(B, C) an edge that closes a cycle, a self-loop
Pairs == {<<"B", "A">>, <<"C", "A">>, <<"D", "B">>, <<"D", "C">>, <<"A", "D">>,
          <<"C", "C">>}
\* the packages the program blesses its object into
BlessInto == {"B", "D"}
Regs == {<<"A", "m", "fA">>, <<"C", "m", "fC">>, <<"A", "m", "fC">>,
         <<"B", "n", "fB">>}

NextOOP ==
    \/ \E e \in Pairs :
          /\ SumLen(oop_packages, "parents") < MaxEdges
          /\ strada_inherit(e[1], e[2])
    \/ \E r \in Regs :
          /\ SumLen(oop_packages, "methods") < MaxMethodEntries
          /\ strada_method_register(r[1], r[2], r[3])
    \/ \E p \in BlessInto : strada_bless(2, p)
    \/ \E o \in {0, 2}, m \in MethodNames : strada_method_call(o, m)
    \/ \E p \in PkgNames, m \in MethodNames : strada_super_call(2, p, m)
    \/ MethodReturn

SpecOOP == InitOOP /\ [][NextOOP]_vars

(***************************************************************************)
(* The inheritance graph as a relation, for stating the claims             *)
(***************************************************************************)

Registered(name) == oop_find_package(oop_packages, name) # 0
ParentsOf(name) ==
    IF Registered(name)
    THEN oop_packages[oop_find_package(oop_packages, name)].parents ELSE <<>>
Defines(name, m) ==
    /\ Registered(name)
    /\ \E e \in RangeOf(oop_packages[oop_find_package(oop_packages, name)].methods) :
          e.name = m
OwnFunc(name, m) ==
    LET ms == oop_packages[oop_find_package(oop_packages, name)].methods
    IN  ms[CHOOSE i \in DOMAIN ms : ms[i].name = m].func

\* depth-first, left-to-right preorder of the hierarchy of P; a package met
\* again on the path from P is not entered a second time
RECURSIVE Preorder(_, _)
RECURSIVE PreorderOfList(_, _)
Preorder(P, path) ==
    IF P \in path THEN <<>>
    ELSE <<P>> \o PreorderOfList(ParentsOf(P), path \cup {P})
PreorderOfList(ps, path) ==
    IF ps = <<>> THEN <<>>
    ELSE Preorder(Head(ps), path) \o PreorderOfList(Tail(ps), path)

\* the first package of the preorder from P that defines m, or NULL
FirstDefining(P, m) ==
    LET seq == Preorder(P, {})
        hits == {i \in DOMAIN seq : Defines(seq[i], m)}
    IN  IF hits = {} THEN NULL
        ELSE seq[CHOOSE i \in hits : \A j \in hits : i <= j]

\* P and every package reachable from it through the parent relation
RECURSIVE ReachFrom(_)
ReachFrom(S) ==
    LET T == S \cup UNION {RangeOf(ParentsOf(Q)) : Q \in S}
    IN  IF T = S THEN S ELSE ReachFrom(T)

IsDiamond ==
    /\ ParentsOf("A") = <<>> /\ ParentsOf("B") = <<"A">>
    /\ ParentsOf("C") = <<"A">> /\ ParentsOf("D") = <<"B", "C">>

\* C4: method lookup from P for m returns the method of the first package, in
\* depth-first left-to-right preorder from P, that defines m; it returns
\* not-found iff no package reachable from P defines m; and
\* strada_method_lookup_package names that same package.
C4_LookupIsFirstInPreorder ==
    \A P \in PkgNames, m \in MethodNames :
        LET d == FirstDefining(P, m)
            f == oop_lookup_method(oop_packages, oop_initialized, P, m)
        IN  /\ f = (IF d = NULL THEN NULL ELSE OwnFunc(d, m))
            /\ strada_method_lookup_package(oop_packages, oop_initialized, P, m) = d
            /\ (f = NULL) <=> ~(\E Q \in ReachFrom({P}) : Defines(Q, m))

\* C4 witness: D(B, C), B(A); A and C define m with different functions and
\* the lookup from D goes through B to A
C4_Witness ==
    /\ ParentsOf("D") = <<"B", "C">> /\ ParentsOf("B") = <<"A">>
    /\ Defines("A", "m") /\ Defines("C", "m")
    /\ OwnFunc("A", "m") = "fA" /\ OwnFunc("C", "m") = "fC"
    /\ oop_lookup_method(oop_packages, oop_initialized, "D", "m") = "fA"
    /\ strada_method_lookup_package(oop_packages, oop_initialized, "D", "m") = "A"

\* C5: strada_isa(obj, P) is true iff P is obj's blessed package or reachable
\* from it through the parents, false for an unblessed value; in the diamond
\* isa(D instance, "A") holds and a method only A defines is found from D.
C5_IsaIsReachability ==
    /\ \A obj \in {0} \cup OopVals, P \in PkgNames :
          strada_isa(obj, P) <=>
              /\ obj # 0
              /\ blessed_package[obj] # NULL
              /\ P \in ReachFrom({blessed_package[obj]})
    /\ (IsDiamond /\ blessed_package[2] = "D") =>
          /\ strada_isa(2, "A")
          /\ \A m \in MethodNames :
                (Defines("A", m) /\ \A Q \in {"B", "C", "D"} : ~Defines(Q, m)) =>
                    /\ strada_can(2, m)
                    /\ oop_lookup_method(oop_packages, oop_initialized,
                                         blessed_package[2], m) = OwnFunc("A", m)

\* C5 witness: the diamond with a D instance and a method only A defines
C5_Witness ==
    /\ IsDiamond /\ blessed_package[2] = "D"
    /\ Defines("A", "m") /\ \A Q \in {"B", "C", "D"} : ~Defines(Q, "m")
    /\ strada_isa(2, "A")

\* C6: strada_method_call exits exactly when obj is unblessed or no package of
\* its hierarchy defines the name, which is exactly when strada_can is false;
\* otherwise it invokes, on obj, the function that method lookup returns.
C6_MethodCallFatalIffCannot ==
    call.op = "method_call" =>
        LET tag == IF call.recv = 0 THEN NULL ELSE blessed_package[call.recv]
        IN  /\ (exit_status = 1) <=> ~strada_can(call.recv, call.method)
            /\ (exit_status = 1) <=>
                   \/ tag = NULL
                   \/ ~(\E Q \in ReachFrom({tag}) : Defines(Q, call.method))
            /\ exit_status # 1 =>
                   /\ exit_status = -1
                   /\ call.func = OwnFunc(FirstDefining(tag, call.method), call.method)

\* C6 witness: a call that dispatched to an inherited method
C6_Witness ==
    /\ call.op = "method_call" /\ exit_status = -1
    /\ ~Defines(blessed_package[call.recv], call.method)
    /\ call.func # NULL

\* the method SUPER:: resolves to from the package context, or NULL
SuperTarget(from, m) ==
    LET ps == ParentsOf(from)
        hits == {i \in DOMAIN ps : FirstDefining(ps[i], m) # NULL}
    IN  IF hits = {} THEN NULL
        ELSE LET i == CHOOSE i \in hits : \A j \in hits : i <= j
             IN  OwnFunc(FirstDefining(ps[i], m), m)

\* C7: strada_super_call chooses the method from from_package's parent list,
\* whatever obj's own package is; in the diamond with m on A and C, SUPER::
\* from B on a D instance invokes A's m, never C's.
C7_SuperFromContext ==
    call.op = "super_call" =>
        /\ (exit_status = 1) <=>
               \/ call.recv = 0
               \/ blessed_package[call.recv] = NULL
               \/ SuperTarget(call.from, call.method) = NULL
        /\ exit_status # 1 => call.func = SuperTarget(call.from, call.method)
        /\ ( /\ exit_status # 1 /\ IsDiamond /\ blessed_package[call.recv] = "D"
             /\ call.from = "B" /\ Defines("A", call.method)
             /\ Defines("C", call.method) )
           => call.func = OwnFunc("A", call.method)

\* C7 witness: SUPER::m from B on a D instance, m defined by A and by C
C7_Witness ==
    /\ call.op = "super_call" /\ exit_status = -1
    /\ IsDiamond /\ blessed_package[call.recv] = "D" /\ call.from = "B"
    /\ call.method = "m" /\ OwnFunc("A", "m") = "fA" /\ Defines("C", "m")
    /\ OwnFunc("C", "m") = "fC" /\ call.func = "fA"

\* C22 (as claimed): the function strada_super_call invokes is in the own
\* method table of a direct parent of from_package, the first direct parent,
\* in parent-list order, that has the method in its own table.
C22_SuperOnlyDirectParents ==
    (call.op = "super_call" /\ exit_status # 1) =>
        LET parents == ParentsOf(call.from)
        IN  \E i \in DOMAIN parents :
                /\ Defines(parents[i], call.method)
                /\ call.func = OwnFunc(parents[i], call.method)
                /\ \A j \in 1..(i - 1) : ~Defines(parents[j], call.method)

(***************************************************************************)
(* Values as arguments: a StradaValue read by a conversion is the record   *)
(* of its type tag and payload                                             *)
(***************************************************************************)

IntVal(i) == [type |-> "INT", iv |-> i]
\* a double with one decimal: nv10 is ten times the number
NumVal(n10) == [type |-> "NUM", nv10 |-> n10]
\* strada_new_str_len: the bytes and their count (may hold NULs)
StrLenVal(bytes) == [type |-> "STR", pv |-> bytes, struct_size |-> Len(bytes)]
ArrayVal(addr) == [type |-> "ARRAY", av |-> addr]
HashVal(addr) == [type |-> "HASH", hv |-> addr]
RefVal(target, pkg) == [type |-> "REF", rv |-> target, blessed_package |-> pkg]
UndefVal == [type |-> "UNDEF"]

\* strada_new_str(s): strdup of the C string, its strlen as the length
strada_new_str(s) ==
    IF s = NoString THEN [type |-> "STR", pv |-> <<>>, struct_size |-> 0]
    ELSE [type |-> "STR", pv |-> CString(s), struct_size |-> Len(CString(s))]

\* the decimal digits of n >= 0, as character codes
RECURSIVE DecDigits(_)
DecDigits(n) ==
    IF n < 10 THEN <<48 + n>> ELSE DecDigits(n \div 10) \o <<48 + (n % 10)>>

\* snprintf "%lld"
FormatLLD(i) == IF i < 0 THEN <<45>> \o DecDigits(-i) ELSE DecDigits(i)

\* snprintf "%g" of n10/10, for magnitudes below 100000
FormatG(n10) ==
    LET a == IF n10 < 0 THEN -n10 ELSE n10
        body == DecDigits(a \div 10)
                \o (IF a % 10 = 0 THEN <<>> ELSE <<46, 48 + (a % 10)>>)
    IN  IF n10 < 0 THEN <<45>> \o body ELSE body

\* the lower-case hexadecimal digits of n >= 0
RECURSIVE HexDigits(_)
HexDigits(n) ==
    LET d == n % 16
        c == IF d < 10 THEN 48 + d ELSE 87 + d
    IN  IF n < 16 THEN <<c>> ELSE HexDigits(n \div 16) \o <<c>>

\* snprintf "%p" (glibc): 0x and the address in hexadecimal
FormatP(addr) == <<48, 120>> \o HexDigits(addr)

\* char* strada_to_str(StradaValue *sv); sv = UndefVal stands for NULL too
strada_to_str(sv) ==
    CASE sv.type = "INT" -> FormatLLD(sv.iv)
      [] sv.type = "NUM" -> FormatG(sv.nv10)
      [] sv.type = "STR" -> CString(sv.pv)
      [] sv.type = "ARRAY" -> <<65, 82, 82, 65, 89, 40, 48, 120>> \o FormatP(sv.av) \o <<41>>
      [] sv.type = "HASH" -> <<72, 65, 83, 72, 40, 48, 120>> \o FormatP(sv.hv) \o <<41>>
      [] OTHER -> <<>>

(***************************************************************************)
(* try / catch / throw                                                     *)
(***************************************************************************)

\* model bound on the nesting of try regions
MaxTryNest == 3

\* the frame a throw jumps to, were it the outermost one
ThrowTargetOutermost(depth) == 0

\* the frame a throw jumps to: strada_try_stack[strada_try_depth - 1]
ThrowTarget(depth) == depth - 1

\* int strada_in_try_block(void)
strada_in_try_block ==
    strada_try_depth > 0 /\ strada_try_stack[strada_try_depth - 1].active = 1

\* the frame on top of the frames pushed and not popped, or NULL
NearestFrame == IF live_frames = <<>> THEN NULL ELSE live_frames[Len(live_frames)]

\* STRADA_TRY_PUSH() by the try region `site` (setjmp on the buffer returned)
STRADA_TRY_PUSH(site) ==
    /\ Running
    /\ IF strada_try_depth < STRADA_MAX_TRY_DEPTH
       THEN /\ strada_try_stack' = [strada_try_stack EXCEPT
                   ![strada_try_depth] = [buf |-> site, active |-> 1]]
            /\ strada_try_depth' = strada_try_depth + 1
            /\ live_frames' = Append(live_frames, site)
       ELSE UNCHANGED <<strada_try_stack, strada_try_depth, live_frames>>
    /\ UNCHANGED <<strada_exception_msg, last_throw, oopVars, heapVars, rcVars, hashVars, closVars,
                   exit_status, call, strVars, arrVars, thrVars, joinVars, shareVars, lookVars, aliasVars>>

\* a pop that deactivates the slot above the top frame
PoppedFrameAbove(depth) == depth

\* the frame STRADA_TRY_POP deactivates: strada_try_stack[--strada_try_depth]
PoppedFrame(depth) == depth - 1

\* the value of STRADA_TRY_PUSH(): the slot whose buf it points to, -1 for NULL
TryPushValue(depth) == IF depth < STRADA_MAX_TRY_DEPTH THEN depth ELSE -1

\* the value of STRADA_TRY_POP()
TryPopValue(depth) == IF depth > 0 THEN 1 ELSE 0

\* STRADA_TRY_POP()
STRADA_TRY_POP ==
    /\ Running
    /\ IF strada_try_depth > 0
       THEN /\ strada_try_stack' = [strada_try_stack EXCEPT
                   ![PoppedFrame(strada_try_depth)].active = 0]
            /\ strada_try_depth' = strada_try_depth - 1
            /\ live_frames' = SubSeq(live_frames, 1, Len(live_frames) - 1)
       ELSE UNCHANGED <<strada_try_stack, strada_try_depth, live_frames>>
    /\ UNCHANGED <<strada_exception_msg, last_throw, oopVars, heapVars, rcVars, hashVars, closVars,
                   exit_status, call, strVars, arrVars, thrVars, joinVars, shareVars, lookVars, aliasVars>>

\* a throw that pops the frame it jumps to
DepthAfterThrowPopped(depth) == depth - 1

\* strada_try_depth after strada_throw / strada_throw_value: neither writes it
DepthAfterThrow(depth) == depth

\* the tail shared by strada_throw and strada_throw_value: longjmp or exit(1)
ThrowJump(op, payload) ==
    /\ IF strada_in_try_block
       THEN /\ last_throw' = [op |-> op, payload |-> payload,
                              target |-> strada_try_stack[
                                            ThrowTarget(strada_try_depth)].buf,
                              nearest |-> NearestFrame]
            /\ UNCHANGED exit_status
       ELSE /\ last_throw' = [op |-> op, payload |-> payload, target |-> NULL,
                              nearest |-> NearestFrame]
            /\ exit_status' = 1
    /\ strada_try_depth' = DepthAfterThrow(strada_try_depth)
    /\ UNCHANGED <<strada_try_stack, live_frames, oopVars,
                   heapVars, rcVars, hashVars, closVars, call, strVars, arrVars, thrVars, joinVars, shareVars, lookVars, aliasVars>>

\* void strada_throw(const char *msg)
strada_throw(msg) ==
    /\ Running
    /\ strada_exception_msg' =
          IF msg = NoString
          THEN <<85, 110, 107, 110, 111, 119, 110, 32, 101, 114, 114, 111, 114>>
          ELSE CString(msg)
    /\ ThrowJump("throw", IF msg = NoString THEN UndefVal ELSE StrLenVal(msg))

\* void strada_throw_value(StradaValue *sv)
strada_throw_value(sv) ==
    /\ Running
    /\ strada_exception_msg' = strada_to_str(sv)
    /\ ThrowJump("throw_value", sv)

\* StradaValue* strada_get_exception(void), as a state function
strada_get_exception ==
    IF strada_exception_msg # NoString THEN strada_new_str(strada_exception_msg)
    ELSE strada_new_str(<<>>)

\* void strada_clear_exception(void)
strada_clear_exception ==
    /\ Running
    /\ strada_exception_msg' = NoString
    /\ UNCHANGED <<strada_try_stack, strada_try_depth, live_frames, last_throw,
                   oopVars, heapVars, rcVars, hashVars, closVars, exit_status, call, strVars, arrVars, thrVars, joinVars, shareVars, lookVars, aliasVars>>

\* the try regions of the program, the messages and the values it throws
Sites == {"try1", "try2"}
Messages == {NoString, <<98, 111, 111, 109>>}
Throwables == {IntVal(42), NumVal(15), strada_new_str(<<98, 111, 111, 109>>), ArrayVal(4096),
               RefVal(1, "A")}

InitExc ==
    /\ ExcInitial
    /\ AliasInitial
    /\ HandlerInitial
    /\ LookInitial
    /\ ShareInitial
    /\ JoinInitial
    /\ ThrInitial
    /\ ArrInitial
    /\ StrInitial
    /\ RcInitial
    /\ HashInitial
    /\ ClosInitial
    /\ oop_packages = <<>>
    /\ oop_initialized = FALSE
    /\ oop_destroying = 0
    /\ typ = <<>> /\ refcount = <<>> /\ rv = <<>> /\ iv = <<>>
    /\ blessed_package = <<>>
    /\ exit_status = -1
    /\ call = NoCall

NextExc ==
    \/ /\ \E site \in Sites : strada_try_depth < MaxTryNest /\ STRADA_TRY_PUSH(site)
       /\ UNCHANGED handlerVars
    \/ STRADA_TRY_POP /\ UNCHANGED handlerVars
    \/ (\E msg \in Messages : strada_throw(msg)) /\ UNCHANGED handlerVars
    \/ (\E sv \in Throwables : strada_throw_value(sv)) /\ UNCHANGED handlerVars
    \/ strada_clear_exception /\ UNCHANGED handlerVars

SpecExc == InitExc /\ [][NextExc]_vars

\* model bound: the throws the program raises while the try-stack stays as
\* it is
MaxRethrows == 2

\* a single thread that throws again from its handlers; caught records, in
\* order, the frames the throws jumped to since the last STRADA_TRY_PUSH or
\* STRADA_TRY_POP
NextRethrow ==
    \/ /\ \E site \in Sites : strada_try_depth < MaxTryNest /\ STRADA_TRY_PUSH(site)
       /\ caught' = <<>>
       /\ UNCHANGED <<exc_pc, exc_nest>>
    \/ /\ STRADA_TRY_POP
       /\ caught' = <<>>
       /\ UNCHANGED <<exc_pc, exc_nest>>
    \/ /\ Len(caught) < MaxRethrows
       /\ \E msg \in Messages : strada_throw(msg)
       /\ caught' = Append(caught, last_throw'.target)
       /\ UNCHANGED <<exc_pc, exc_nest>>
    \/ /\ Len(caught) < MaxRethrows
       /\ \E sv \in Throwables : strada_throw_value(sv)
       /\ caught' = Append(caught, last_throw'.target)
       /\ UNCHANGED <<exc_pc, exc_nest>>

SpecRethrow == InitExc /\ [][NextRethrow]_vars

\* C28: strada_throw and strada_throw_value leave strada_try_stack and
\* strada_try_depth as they are; after a caught throw the frame jumped to is
\* still the top active frame, and a throw raised before the next
\* STRADA_TRY_POP jumps to that frame again, not to the one enclosing it.
C28_ThrowStep ==
    ((\E msg \in Messages : strada_throw(msg))
        \/ (\E sv \in Throwables : strada_throw_value(sv))) =>
        /\ UNCHANGED <<strada_try_stack, strada_try_depth>>
        /\ strada_in_try_block =>
              /\ strada_in_try_block'
              /\ last_throw'.target = strada_try_stack'[strada_try_depth' - 1].buf
              /\ caught # <<>> => last_throw'.target = caught[Len(caught)]

C28_ThrowKeepsFrame == [][C28_ThrowStep]_vars

\* C28 witness: inside try1 and try2, two throws in a row both landed in
\* try2, which is still the top active frame
C28_Witness ==
    /\ caught = <<"try2", "try2">>
    /\ live_frames = <<"try1", "try2">>
    /\ strada_try_depth = 2 /\ strada_in_try_block
    /\ strada_try_stack[0].buf = "try1" /\ strada_try_stack[1].buf = "try2"

\* one try region entered recursively, as deep as the program likes
DeepSites == {"try1"}

NextTry ==
    \/ (\E site \in DeepSites : STRADA_TRY_PUSH(site)) /\ UNCHANGED handlerVars
    \/ STRADA_TRY_POP /\ UNCHANGED handlerVars

SpecTry == InitExc /\ [][NextTry]_vars

\* the frames, as the slots of strada_try_stack
Slots == 0..(STRADA_MAX_TRY_DEPTH - 1)

C23_DepthAndFlags ==
    /\ 0 <= strada_try_depth /\ strada_try_depth <= STRADA_MAX_TRY_DEPTH
    /\ \A i \in Slots : strada_try_stack[i].active = 1 <=> i < strada_try_depth

C23_PushStep ==
    \A site \in DeepSites : STRADA_TRY_PUSH(site) =>
        IF strada_try_depth < STRADA_MAX_TRY_DEPTH
        THEN /\ TryPushValue(strada_try_depth) = strada_try_depth
             /\ strada_try_depth' = strada_try_depth + 1
             /\ strada_try_stack'[strada_try_depth].active = 1
             /\ \A i \in Slots \ {strada_try_depth} :
                   strada_try_stack'[i] = strada_try_stack[i]
        ELSE /\ TryPushValue(strada_try_depth) = -1
             /\ UNCHANGED <<strada_try_stack, strada_try_depth>>

C23_PopStep ==
    STRADA_TRY_POP =>
        IF strada_try_depth > 0
        THEN /\ TryPopValue(strada_try_depth) = 1
             /\ strada_try_depth' = strada_try_depth - 1
             /\ strada_try_stack'[strada_try_depth - 1].active = 0
             /\ \A i \in Slots \ {strada_try_depth - 1} :
                   strada_try_stack'[i] = strada_try_stack[i]
        ELSE /\ TryPopValue(strada_try_depth) = 0
             /\ UNCHANGED <<strada_try_stack, strada_try_depth>>

\* C23: STRADA_TRY_PUSH below depth 64 marks the slot at depth active and
\* raises the depth by one, at depth 64 it yields NULL and changes nothing;
\* STRADA_TRY_POP deactivates the top frame and lowers the depth by one, at
\* depth 0 it yields 0 and changes nothing; always 0 <= depth <= 64 and the
\* active frames are exactly those below depth.
C23_BoundedLifo == []C23_DepthAndFlags /\ [][C23_PushStep /\ C23_PopStep]_vars

\* C23 witness: the stack is full, all 64 frames active
C23_Witness ==
    /\ strada_try_depth = STRADA_MAX_TRY_DEPTH
    /\ TryPushValue(strada_try_depth) = -1
    /\ \A i \in Slots : strada_try_stack[i].active = 1

\* C8: a throw with a non-empty try-stack transfers control to the most
\* recently pushed, not yet popped frame; with an empty try-stack the process
\* exits with status 1 and no handler runs.
C8_ThrowJumpsToNearestFrame ==
    last_throw.op # "none" =>
        /\ last_throw.nearest # NULL =>
              last_throw.target = last_throw.nearest
        /\ last_throw.nearest = NULL =>
              exit_status = 1 /\ last_throw.target = NULL
        /\ exit_status = 1 => last_throw.nearest = NULL

\* C8 witness: a throw inside two nested try regions landed in the inner one
C8_Witness ==
    /\ last_throw.op # "none" /\ exit_status = -1
    /\ live_frames = <<"try1", "try2">> /\ last_throw.target = "try2"

\* C9 (as claimed): after a caught throw, until strada_clear_exception,
\* strada_get_exception returns a value equal to the thrown one, whatever
\* its kind.
C9_GetExceptionEqualsThrown ==
    ( /\ last_throw.op # "none" /\ last_throw.target # NULL
      /\ last_throw.payload.type # "UNDEF"
      /\ strada_exception_msg # NoString )
    => strada_get_exception = last_throw.payload

(***************************************************************************)
(* Reference counting, strada_free_value and DESTROY                       *)
(***************************************************************************)

\* model bounds: value ids malloc hands out, references the program's
\* variables hold to one value, strada_free_value entries per value
MaxVals == 3
MaxHeld == 2
MaxFreeLog == 2

Vals == 1..MaxVals

\* the outcomes of touching storage that free() already released: the
\* process is killed (SIGSEGV, or SIGABRT from the allocator), or the access
\* goes through on the bytes that are still there
UBOutcomes == {"crash", "stale"}

\* the fields the release path reads and writes, as one record
Heap ==
    [typ |-> typ, refcount |-> refcount, rv |-> rv,
     blessed_package |-> blessed_package, released |-> released,
     free_value_log |-> free_value_log, destroy_calls |-> destroy_calls,
     oop_destroying |-> oop_destroying, killed |-> FALSE,
     av |-> av, av_freed |-> av_freed, hv |-> hv, hv_freed |-> hv_freed]

Frame(pc, sv) == [pc |-> pc, sv |-> sv]

Dangling(h, sv) == sv # 0 /\ h.released[sv] > 0

\* a pointer that no longer leads to the storage it was set to
WildPointer == <<-1>>

\* the count at which strada_free_array / strada_free_hash keep the container
ContainerKept(count) == count > 0

\* the call reads a container that free() already released, or goes
\* through a wild storage pointer, or past the end of the storage, to
\* release what the container holds
DanglingContainer(h, f) ==
    \/ /\ f.pc = "free_array"
       /\ \/ h.av_freed > 0
          \/ h.av.elements = WildPointer /\ ~ContainerKept(h.av.refcount - 1)
    \/ /\ f.pc = "free_hash"
       /\ \/ h.hv_freed > 0
          \/ /\ h.hv.buckets = WildPointer \/ h.hv.num_buckets > Len(h.hv.buckets)
             /\ ~ContainerKept(h.hv.refcount - 1)

\* strada_incref(sv)
IncrefStep(h, sv, rest) ==
    IF sv = 0 THEN [h |-> h, w |-> rest]
    ELSE [h |-> [h EXCEPT !.refcount[sv] = @ + 1], w |-> rest]

\* the count at which strada_decref calls strada_free_value
DecrefFreesAt(count) == count <= 0

\* strada_decref(sv)
DecrefStep(h, sv, rest) ==
    IF sv = 0 THEN [h |-> h, w |-> rest]
    ELSE LET h1 == [h EXCEPT !.refcount[sv] = @ - 1]
         IN  IF DecrefFreesAt(h1.refcount[sv])
             THEN [h |-> h1, w |-> <<Frame("free_value", sv)>> \o rest]
             ELSE [h |-> h1, w |-> rest]

\* strada_call_destroy(obj), up to the call destroy(obj, NULL)
CallDestroyStep(h, obj, rest) ==
    LET skip == [h |-> h, w |-> <<Frame("untag", obj)>> \o rest]
        destroy == oop_lookup_method(oop_packages, oop_initialized,
                                     h.blessed_package[obj], "DESTROY")
    IN  IF h.blessed_package[obj] = NULL \/ h.oop_destroying # 0 THEN skip
        ELSE IF ~oop_initialized THEN skip
        ELSE IF destroy = NULL THEN skip
        ELSE [h |-> [h EXCEPT !.oop_destroying = 1,
                              !.destroy_calls[obj] = @ + 1],
              w |-> <<Frame("destroy", obj), Frame("untag", obj)>> \o rest]

\* a DESTROY is due for the value: blessed reference whose hierarchy has one
DestroyDue(h, sv) ==
    /\ h.typ[sv] = "REF"
    /\ h.blessed_package[sv] # NULL
    /\ oop_lookup_method(oop_packages, TRUE, h.blessed_package[sv], "DESTROY") # NULL

\* strada_free_value(sv), up to strada_call_destroy
FreeValueStep(h, sv, rest) ==
    LET h1 == [h EXCEPT !.free_value_log[sv] =
                  Append(@, [count |-> h.refcount[sv], due |-> DestroyDue(h, sv)])]
    IN  IF h.blessed_package[sv] = NULL
        THEN [h |-> h1, w |-> <<Frame("payload", sv)>> \o rest]
        ELSE IF h.typ[sv] # "REF"
        THEN [h |-> [h1 EXCEPT !.blessed_package[sv] = NULL],
              w |-> <<Frame("payload", sv)>> \o rest]
        ELSE CallDestroyStep(h1, sv, rest)

\* strada_free_value: free(sv->blessed_package); sv->blessed_package = NULL
UntagStep(h, sv, rest) ==
    [h |-> [h EXCEPT !.blessed_package[sv] = NULL],
     w |-> <<Frame("payload", sv)>> \o rest]

\* a capture slot of a closure would be the enclosing variable itself
CaptureCellShared(var) == [own |-> FALSE, value |-> frame_var[var], var |-> var]

\* strada_closure_new: a capture slot is storage of the closure's own, holding
\* a copy of the pointer the variable holds now
CaptureCell(var) == [own |-> TRUE, value |-> frame_var[var], var |-> var]

\* *(cl->captures[i])
CellValue(cell) == IF cell.own THEN cell.value ELSE frame_var[cell.var]

\* strada_free_value, case STRADA_CLOSURE: one strada_decref per non-NULL capture
RECURSIVE CaptureDecrefs(_)
CaptureDecrefs(cells) ==
    IF cells = <<>> THEN <<>>
    ELSE (IF CellValue(Head(cells)) # 0
          THEN <<Frame("decref", CellValue(Head(cells)))>> ELSE <<>>)
         \o CaptureDecrefs(Tail(cells))

\* av->elements[i], the C index i counted from 0
ElementAt(a, i) == a.elements[i + 1]

\* strada_free_array: one strada_decref per element below av->size
RECURSIVE ElementDecrefs(_, _)
ElementDecrefs(a, i) ==
    IF i >= a.size THEN <<>>
    ELSE <<Frame("decref", ElementAt(a, i))>> \o ElementDecrefs(a, i + 1)

\* strada_free_hash: one strada_decref per entry, bucket by bucket; a
\* bucket past the end of the table reads as NULL
RECURSIVE EntryDecrefs(_, _, _)
EntryDecrefs(h, i, j) ==
    IF i > h.num_buckets THEN <<>>
    ELSE IF i > Len(h.buckets) \/ j > Len(h.buckets[i]) THEN EntryDecrefs(h, i + 1, 1)
    ELSE <<Frame("decref", h.buckets[i][j].value)>> \o EntryDecrefs(h, i, j + 1)

\* strada_free_array(av), av not NULL: av->refcount--, return while the
\* count is positive, else the elements' decrefs, free(av->elements),
\* free(av); the elements of an array whose pointer is wild read as NULL
FreeArrayStep(h, rest) ==
    LET a == [h.av EXCEPT !.refcount = @ - 1]
    IN  IF ContainerKept(a.refcount) THEN [h |-> [h EXCEPT !.av = a], w |-> rest]
        ELSE [h |-> [h EXCEPT !.av = a, !.av_freed = @ + 1],
              w |-> (IF a.elements = WildPointer THEN <<>> ELSE ElementDecrefs(a, 0))
                    \o rest]

\* strada_free_hash(hv), hv not NULL
FreeHashStep(h, rest) ==
    LET t == [h.hv EXCEPT !.refcount = @ - 1]
    IN  IF ContainerKept(t.refcount) THEN [h |-> [h EXCEPT !.hv = t], w |-> rest]
        ELSE [h |-> [h EXCEPT !.hv = t, !.hv_freed = @ + 1],
              w |-> (IF t.buckets = WildPointer THEN <<>> ELSE EntryDecrefs(t, 1, 1))
                    \o rest]

\* strada_free_value: the switch on sv->type, then free(sv); an Array or
\* Hash value holds the program's array or hash
PayloadStep(h, sv, rest) ==
    IF h.typ[sv] = "REF" /\ h.rv[sv] # 0
    THEN [h |-> h, w |-> <<Frame("decref", h.rv[sv]), Frame("free_sv", sv)>> \o rest]
    ELSE IF h.typ[sv] = "ARRAY"
    THEN [h |-> h, w |-> <<Frame("free_array", 0), Frame("free_sv", sv)>> \o rest]
    ELSE IF h.typ[sv] = "HASH"
    THEN [h |-> h, w |-> <<Frame("free_hash", 0), Frame("free_sv", sv)>> \o rest]
    ELSE IF h.typ[sv] = "CLOSURE"
    THEN [h |-> h, w |-> CaptureDecrefs(closure_of[sv].captures)
                         \o <<Frame("free_sv", sv)>> \o rest]
    ELSE [h |-> h, w |-> <<Frame("free_sv", sv)>> \o rest]

\* free(sv)
FreeSvStep(h, sv, rest) ==
    [h |-> [h EXCEPT !.released[sv] = @ + 1], w |-> rest]

Step(h, f, rest) ==
    CASE f.pc = "incref" -> IncrefStep(h, f.sv, rest)
      [] f.pc = "decref" -> DecrefStep(h, f.sv, rest)
      [] f.pc = "free_value" -> FreeValueStep(h, f.sv, rest)
      [] f.pc = "untag" -> UntagStep(h, f.sv, rest)
      [] f.pc = "payload" -> PayloadStep(h, f.sv, rest)
      [] f.pc = "free_sv" -> FreeSvStep(h, f.sv, rest)
      [] f.pc = "free_array" -> FreeArrayStep(h, rest)
      [] f.pc = "free_hash" -> FreeHashStep(h, rest)

\* run the C code on the stack until it returns to the program: to the
\* caller of the outermost runtime call, or into a DESTROY body
RECURSIVE Run(_, _, _)
Run(h, w, ub) ==
    IF w = <<>> \/ h.killed \/ Head(w).pc = "destroy" THEN [h |-> h, w |-> w]
    ELSE IF (Dangling(h, Head(w).sv) \/ DanglingContainer(h, Head(w))) /\ ub = "crash"
    THEN [h |-> [h EXCEPT !.killed = TRUE], w |-> w]
    ELSE LET r == Step(h, Head(w), Tail(w)) IN Run(r.h, r.w, ub)

\* the state the run leaves behind; a killed process ends with SIGABRT's status
Commit(r) ==
    /\ typ' = r.h.typ
    /\ refcount' = r.h.refcount
    /\ rv' = r.h.rv
    /\ blessed_package' = r.h.blessed_package
    /\ released' = r.h.released
    /\ free_value_log' = r.h.free_value_log
    /\ destroy_calls' = r.h.destroy_calls
    /\ oop_destroying' = r.h.oop_destroying
    /\ stack' = r.w
    /\ exit_status' = IF r.h.killed THEN 134 ELSE exit_status

\* what the run leaves of the array and the hash that Values hold
CommitContainers(r) ==
    /\ av' = r.h.av
    /\ av_freed' = r.h.av_freed
    /\ hv' = r.h.hv
    /\ hv_freed' = r.h.hv_freed

CanAlloc == \E v \in DOMAIN typ : typ[v] = "NONE"
FreshId ==
    CHOOSE v \in DOMAIN typ :
        typ[v] = "NONE" /\ \A u \in DOMAIN typ : typ[u] = "NONE" => v <= u

\* the DESTROY body that is running, 0 if none
DestroySelf == IF stack # <<>> /\ Head(stack).pc = "destroy" THEN Head(stack).sv ELSE 0

\* StradaValue* strada_new_int(int64_t i)
strada_new_int(i) ==
    /\ Running /\ CanAlloc
    /\ typ' = [typ EXCEPT ![FreshId] = "INT"]
    /\ refcount' = [refcount EXCEPT ![FreshId] = 1]
    /\ iv' = [iv EXCEPT ![FreshId] = i]
    /\ blessed_package' = [blessed_package EXCEPT ![FreshId] = NULL]
    /\ held' = [held EXCEPT ![FreshId] = 1]
    /\ UNCHANGED <<rv, released, free_value_log, destroy_calls, stack, oopVars,
                   excVars, hashVars, closVars, exit_status, call, strVars, arrVars, thrVars, joinVars, shareVars, lookVars, handlerVars, aliasVars>>

\* StradaValue* strada_ref_create(StradaValue *sv), sv not NULL
strada_ref_create(sv, ub) ==
    /\ Running /\ CanAlloc
    /\ held[sv] > 0
    /\ LET h == [Heap EXCEPT !.typ[FreshId] = "REF", !.refcount[FreshId] = 1,
                             !.rv[FreshId] = sv, !.blessed_package[FreshId] = NULL]
       IN  Commit(Run(h, <<Frame("incref", sv)>> \o stack, ub))
    /\ held' = [held EXCEPT ![FreshId] = 1]
    /\ UNCHANGED <<iv, oop_packages, oop_initialized, excVars, hashVars, closVars, call, strVars, arrVars, thrVars, joinVars, shareVars, lookVars, handlerVars, aliasVars>>

\* StradaValue* strada_ref_create_take(StradaValue *sv), sv not NULL: the
\* caller donates its reference to the new Reference
strada_ref_create_take(sv) ==
    /\ Running /\ CanAlloc
    /\ held[sv] > 0
    /\ typ' = [typ EXCEPT ![FreshId] = "REF"]
    /\ refcount' = [refcount EXCEPT ![FreshId] = 1]
    /\ rv' = [rv EXCEPT ![FreshId] = sv]
    /\ blessed_package' = [blessed_package EXCEPT ![FreshId] = NULL]
    /\ held' = [held EXCEPT ![FreshId] = 1, ![sv] = @ - 1]
    /\ UNCHANGED <<iv, released, free_value_log, destroy_calls, stack, oopVars,
                   excVars, hashVars, closVars, exit_status, call, strVars, arrVars, thrVars, joinVars, shareVars, lookVars, handlerVars, aliasVars>>

\* strada_deref would hand back the reference itself
DerefResultSelf(h, ref) == ref

\* strada_deref: the value handed back, ref->value.rv of a Reference and
\* ref itself otherwise
DerefResult(h, ref) == IF h.typ[ref] = "REF" THEN h.rv[ref] ELSE ref

\* StradaValue* strada_deref(StradaValue *ref), ref not NULL: the caller owns
\* the handle it gets back
strada_deref(ref, ub) ==
    /\ Running
    /\ held[ref] > 0
    /\ Commit(Run(Heap, <<Frame("incref", DerefResult(Heap, ref))>> \o stack, ub))
    /\ held' = [held EXCEPT ![DerefResult(Heap, ref)] = @ + 1]
    /\ UNCHANGED <<iv, oop_packages, oop_initialized, excVars, hashVars, closVars, call, strVars, arrVars, thrVars, joinVars, shareVars, lookVars, handlerVars, aliasVars>>

\* void strada_incref(StradaValue *sv), called by a holder of sv or by the
\* DESTROY body on its own object
strada_incref(sv, ub) ==
    /\ Running
    /\ held[sv] > 0 \/ DestroySelf = sv
    /\ Commit(Run(Heap, <<Frame("incref", sv)>> \o stack, ub))
    /\ held' = [held EXCEPT ![sv] = @ + 1]
    /\ UNCHANGED <<iv, oop_packages, oop_initialized, excVars, hashVars, closVars, call, strVars, arrVars, thrVars, joinVars, shareVars, lookVars, handlerVars, aliasVars>>

\* void strada_decref(StradaValue *sv), called by a holder giving up its reference
strada_decref(sv, ub) ==
    /\ Running
    /\ held[sv] > 0
    /\ Commit(Run(Heap, <<Frame("decref", sv)>> \o stack, ub))
    /\ CommitContainers(Run(Heap, <<Frame("decref", sv)>> \o stack, ub))
    /\ held' = [held EXCEPT ![sv] = @ - 1]
    /\ UNCHANGED <<iv, oop_packages, oop_initialized, excVars, closVars, call, strVars,
                   strada_default_hash_capacity, hash_model,
                   strada_default_array_capacity, share_pc, loaded, wraps, orphaned,
                   thrVars, joinVars, lookVars, handlerVars>>

\* the DESTROY body returns: strada_call_destroy resets oop_destroying and
\* strada_free_value goes on
DestroyReturn(ub) ==
    /\ Running
    /\ DestroySelf # 0
    /\ Commit(Run([Heap EXCEPT !.oop_destroying = 0], Tail(stack), ub))
    /\ UNCHANGED <<iv, held, oop_packages, oop_initialized, excVars, hashVars, closVars, call, strVars, arrVars, thrVars, joinVars, shareVars, lookVars, handlerVars, aliasVars>>

InitRC ==
    /\ oop_packages = <<>>
    /\ oop_initialized = FALSE
    /\ oop_destroying = 0
    /\ typ = [v \in Vals |-> "NONE"]
    /\ refcount = [v \in Vals |-> 0]
    /\ rv = [v \in Vals |-> 0]
    /\ iv = [v \in Vals |-> 0]
    /\ blessed_package = [v \in Vals |-> NULL]
    /\ released = [v \in Vals |-> 0]
    /\ free_value_log = [v \in Vals |-> <<>>]
    /\ destroy_calls = [v \in Vals |-> 0]
    /\ held = [v \in Vals |-> 0]
    /\ stack = <<>>
    /\ exit_status = -1
    /\ call = NoCall
    /\ ExcInitial
    /\ AliasInitial
    /\ HandlerInitial
    /\ LookInitial
    /\ ShareInitial
    /\ JoinInitial
    /\ ThrInitial
    /\ ArrInitial
    /\ StrInitial
    /\ HashInitial
    /\ ClosInitial

\* the classes of the program: A defines DESTROY, B inherits it, C has none
ClassesDeclared ==
    /\ oop_find_package(oop_packages, "B") # 0
    /\ oop_lookup_method(oop_packages, oop_initialized, "B", "DESTROY") # NULL

NextRC ==
    \/ /\ oop_packages = <<>>
       /\ strada_method_register("A", "DESTROY", "fA")
    \/ /\ oop_packages # <<>> /\ ~ClassesDeclared
       /\ strada_inherit("B", "A")
    \/ /\ ClassesDeclared /\ DestroySelf = 0
       /\ strada_new_int(7)
    \/ /\ ClassesDeclared /\ DestroySelf = 0
       /\ \E sv \in Vals, ub \in UBOutcomes : strada_ref_create(sv, ub)
    \/ /\ ClassesDeclared /\ DestroySelf = 0
       /\ \E sv \in Vals : strada_ref_create_take(sv)
    \/ /\ DestroySelf = 0
       /\ \E ref \in Vals, p \in {"B", "C"} :
             /\ typ[ref] = "REF" /\ held[ref] > 0 /\ released[ref] = 0
             /\ blessed_package[ref] = NULL
             /\ strada_bless(ref, p)
    \/ /\ DestroySelf = 0
       /\ \E ref \in Vals, ub \in UBOutcomes :
             /\ held[DerefResult(Heap, ref)] < MaxHeld
             /\ Len(free_value_log[DerefResult(Heap, ref)]) < MaxFreeLog
             /\ strada_deref(ref, ub)
    \/ \E sv \in Vals, ub \in UBOutcomes :
          /\ held[sv] < MaxHeld /\ Len(free_value_log[sv]) < MaxFreeLog
          /\ strada_incref(sv, ub)
    \/ \E sv \in Vals, ub \in UBOutcomes : strada_decref(sv, ub)
    \/ \E ub \in UBOutcomes :
          DestroySelf # 0 /\ held[DestroySelf] = 0 /\ DestroyReturn(ub)

SpecRC == InitRC /\ [][NextRC]_vars

\* C1 (as claimed): strada_free_value runs for a value at most once, only
\* with the count at zero, and it has run once the count is zero and no
\* release is in progress.
C1_FreeValueExactlyOnce ==
    \A v \in Vals :
        /\ Len(free_value_log[v]) <= 1
        /\ \A i \in DOMAIN free_value_log[v] : free_value_log[v][i].count = 0
        /\ (typ[v] # "NONE" /\ refcount[v] = 0 /\ stack = <<>> /\ Running)
              => Len(free_value_log[v]) = 1

\* C2 (as claimed): a blessed Reference whose hierarchy defines DESTROY has
\* DESTROY invoked at most once, never while its count is positive, and
\* once it has been released DESTROY has been invoked exactly once.
C2_DestroyExactlyOnce ==
    \A v \in Vals :
        /\ destroy_calls[v] <= 1
        /\ destroy_calls[v] = 1 => free_value_log[v][1].count = 0
        /\ (released[v] > 0 /\ free_value_log[v][1].due) => destroy_calls[v] = 1

\* the value is allocated and its storage has not been released
Allocated(v) == typ[v] # "NONE" /\ released[v] = 0

C12_RefCreate ==
    \A t \in Vals, ub \in UBOutcomes :
        (Allocated(t) /\ strada_ref_create(t, ub)) =>
            /\ typ[FreshId] = "NONE" /\ typ'[FreshId] = "REF" /\ rv'[FreshId] = t
            /\ refcount'[FreshId] = 1 /\ held'[FreshId] = 1
            /\ refcount'[t] = refcount[t] + 1

C12_RefCreateTake ==
    \A t \in Vals :
        (Allocated(t) /\ strada_ref_create_take(t)) =>
            /\ typ[FreshId] = "NONE" /\ typ'[FreshId] = "REF" /\ rv'[FreshId] = t
            /\ refcount'[FreshId] = 1 /\ held'[FreshId] = 1
            /\ refcount'[t] = refcount[t]

C12_Deref ==
    \A r \in Vals, ub \in UBOutcomes :
        (Allocated(r) /\ typ[r] = "REF" /\ Allocated(rv[r]) /\ strada_deref(r, ub)) =>
            /\ held'[rv[r]] = held[rv[r]] + 1
            /\ refcount'[rv[r]] = refcount[rv[r]] + 1
            /\ refcount'[r] = refcount[r] /\ held'[r] = held[r]

\* this step runs the STRADA_REF case of strada_free_value(r): before it the
\* release of r has not begun or waits in r's DESTROY, after it r's storage
\* is released or only free(r) is left to do
FreeRefCaseRuns(r) ==
    /\ \/ free_value_log[r] = <<>> /\ free_value_log'[r] # <<>>
       \/ DestroySelf = r
    /\ \/ released'[r] > 0
       \/ \E i \in DOMAIN stack' : stack'[i] = Frame("free_sv", r)

C12_FreeOfReference ==
    \A r \in Vals :
        (Allocated(r) /\ typ[r] = "REF" /\ Allocated(rv[r]) /\ FreeRefCaseRuns(r)) =>
            refcount'[rv[r]] = refcount[rv[r]] - 1

\* C12: on allocated values, strada_ref_create(t) makes a new Reference with
\* count 1 and raises t's count by one; strada_ref_create_take(t) makes a new
\* Reference with count 1 and leaves t's count alone; strada_deref(r) hands
\* the caller r's payload with the payload's count raised by one; the step
\* that releases a Reference lowers its payload's count by one.
C12_ReferenceCounts ==
    [][C12_RefCreate /\ C12_RefCreateTake /\ C12_Deref /\ C12_FreeOfReference]_vars

\* C12 witness: one Reference to t has been released, another is live and
\* has been dereferenced: t is counted for its variable, the live Reference
\* and the handle strada_deref returned
C12_Witness ==
    \E r1, r2, t \in Vals :
        /\ typ[r1] = "REF" /\ rv[r1] = t /\ released[r1] = 1
        /\ typ[r2] = "REF" /\ rv[r2] = t /\ Allocated(r2)
        /\ Allocated(t) /\ held[t] = 2 /\ refcount[t] = 3

\* C19 (as claimed): when a DESTROY body takes and drops a reference to
\* its own object, DESTROY runs for the object once only, the object's
\* storage is released once only, and the release path never touches
\* storage that is already released (the process is not killed).
C19_ReentrantDestroyReleasesOnce ==
    /\ Running
    /\ \A v \in Vals :
          destroy_calls[v] > 0 => destroy_calls[v] = 1 /\ released[v] <= 1

(***************************************************************************)
(* Hash tables                                                             *)
(***************************************************************************)

\* model bound: the values the program stores into the hash
MaxHashVals == 2

\* An unsigned int is kept as its two 16-bit halves [hi, lo], so that the
\* arithmetic modulo 2^32 stays within the integers of the model checker.
U32(hi, lo) == [hi |-> hi, lo |-> lo]

\* ((hash << 5) + hash) + c in unsigned int: hash * 33 + c modulo 2^32
HashStep(hash, c) ==
    LET lo == hash.lo * 33 + c
    IN  U32((hash.hi * 33 + (lo \div 65536)) % 65536, lo % 65536)

\* hash % n for an unsigned int hash and 0 < n < 2^15
U32Mod(hash, n) == ((hash.hi % n) * (65536 % n) + (hash.lo % n)) % n

\* strada_hash_string: djb2 over the bytes of the C string
RECURSIVE HashFrom(_, _)
HashFrom(hash, str) ==
    IF str = <<>> THEN hash ELSE HashFrom(HashStep(hash, Head(str)), Tail(str))

\* 5381 is 0 * 65536 + 5381
strada_hash_string(str) == HashFrom(U32(0, 5381), CString(str))

\* hash % hv->num_buckets, the index of the bucket searched for the key
BucketOf(h, key) == U32Mod(strada_hash_string(key), h.num_buckets)

\* a search of the chain that never finds the key
ChainIndexNone(chain, key) == 0

\* the position in the chain of the first entry with strcmp(entry->key, key) == 0
ChainIndex(chain, key) ==
    LET hits == {i \in DOMAIN chain : CString(chain[i].key) = CString(key)}
    IN  IF hits = {} THEN 0 ELSE CHOOSE i \in hits : \A j \in hits : i <= j

\* int strada_hash_exists(StradaHash *hv, const char *key)
strada_hash_exists(h, key) ==
    IF h = NoHash \/ key = NoString THEN FALSE
    ELSE ChainIndex(h.buckets[BucketOf(h, key) + 1], key) # 0

\* StradaValue* strada_hash_get(StradaHash *hv, const char *key): the value
\* stored, 0 standing for the Undef value it allocates when there is none
strada_hash_get(h, key) ==
    IF h = NoHash \/ key = NoString THEN 0
    ELSE LET chain == h.buckets[BucketOf(h, key) + 1]
             i == ChainIndex(chain, key)
         IN  IF i = 0 THEN 0 ELSE chain[i].value

\* strada_hash_resize would file an entry under its bucket in the old table
RehashBucketOld(hash, old_num_buckets, new_num_buckets) ==
    U32Mod(hash, old_num_buckets)

\* strada_hash_resize: hash % new_num_buckets
RehashBucket(hash, old_num_buckets, new_num_buckets) ==
    U32Mod(hash, new_num_buckets)

\* strada_hash_resize: the while loop over one old chain, inserting at the head
RECURSIVE RehashChain(_, _, _, _)
RehashChain(buckets, chain, old_n, new_n) ==
    IF chain = <<>> THEN buckets
    ELSE LET entry == Head(chain)
             bucket == RehashBucket(strada_hash_string(entry.key), old_n, new_n)
         IN  RehashChain([buckets EXCEPT ![bucket + 1] = <<entry>> \o @],
                         Tail(chain), old_n, new_n)

\* strada_hash_resize: the for loop over the old buckets, from bucket i - 1 on
RECURSIVE RehashFrom(_, _, _, _, _)
RehashFrom(buckets, old_buckets, i, old_n, new_n) ==
    IF i > old_n THEN buckets
    ELSE RehashFrom(RehashChain(buckets, old_buckets[i], old_n, new_n),
                    old_buckets, i + 1, old_n, new_n)

\* static void strada_hash_resize(StradaHash *hv)
strada_hash_resize(h) ==
    LET new_num_buckets == h.num_buckets * 2
    IN  [h EXCEPT !.buckets = RehashFrom([i \in 1..new_num_buckets |-> <<>>],
                                          h.buckets, 1, h.num_buckets,
                                          new_num_buckets),
                  !.num_buckets = new_num_buckets]

\* strada_hash_set: num_entries * 4 > num_buckets * 3
OverLoadFactor(h) == h.num_entries * 4 > h.num_buckets * 3

\* void strada_set_hash_default_capacity(int64_t capacity)
strada_set_hash_default_capacity(capacity) ==
    /\ Running
    /\ strada_default_hash_capacity' =
          IF capacity > 0 THEN capacity ELSE strada_default_hash_capacity
    /\ UNCHANGED <<hv, hash_model, oopVars, heapVars, excVars, rcVars, closVars,
                   exit_status, call, strVars, arrVars, thrVars, joinVars, shareVars, lookVars, handlerVars, aliasVars>>

\* StradaHash* strada_hash_new(void)
strada_hash_new ==
    /\ Running
    /\ hv' = [buckets |-> [i \in 1..strada_default_hash_capacity |-> <<>>],
              num_buckets |-> strada_default_hash_capacity,
              num_entries |-> 0, refcount |-> 1]
    /\ hash_model' = [k \in Keys |-> 0]
    /\ UNCHANGED <<strada_default_hash_capacity, oopVars, heapVars, excVars,
                   rcVars, closVars, exit_status, call, strVars, arrVars, thrVars, joinVars, shareVars, lookVars, handlerVars, aliasVars>>

\* void strada_hash_set(StradaHash *hv, const char *key, StradaValue *sv)
strada_hash_set(key, sv, ub) ==
    /\ Running
    /\ IF hv = NoHash \/ key = NoString
       THEN UNCHANGED <<hv, hash_model, heapVars, rcVars, oop_destroying,
                        exit_status, strVars, arrVars, thrVars, joinVars, shareVars, lookVars, handlerVars, aliasVars>>
       ELSE LET b == BucketOf(hv, key) + 1
                i == ChainIndex(hv.buckets[b], key)
                added == [hv EXCEPT !.buckets[b] =
                                       <<[key |-> CString(key), value |-> sv]>> \o @,
                                    !.num_entries = @ + 1]
            IN  /\ IF i # 0
                   THEN /\ hv' = [hv EXCEPT !.buckets[b][i].value = sv]
                        /\ Commit(Run(Heap, <<Frame("decref", hv.buckets[b][i].value),
                                              Frame("incref", sv)>> \o stack, ub))
                   ELSE /\ hv' = IF OverLoadFactor(added)
                                 THEN strada_hash_resize(added) ELSE added
                        /\ Commit(Run(Heap, <<Frame("incref", sv)>> \o stack, ub))
                /\ hash_model' = [hash_model EXCEPT ![key] = sv]
                /\ UNCHANGED <<iv, held>>
    /\ UNCHANGED <<strada_default_hash_capacity, oop_packages, oop_initialized,
                   excVars, closVars, call, strVars, arrVars, thrVars, joinVars, shareVars, lookVars, handlerVars, aliasVars>>

\* void strada_hash_delete(StradaHash *hv, const char *key)
strada_hash_delete(key, ub) ==
    /\ Running
    /\ IF hv = NoHash \/ key = NoString
       THEN UNCHANGED <<hv, hash_model, heapVars, rcVars, oop_destroying,
                        exit_status, strVars, arrVars, thrVars, joinVars, shareVars, lookVars, handlerVars, aliasVars>>
       ELSE LET b == BucketOf(hv, key) + 1
                chain == hv.buckets[b]
                i == ChainIndex(chain, key)
            IN  /\ IF i # 0
                   THEN /\ hv' = [hv EXCEPT
                                   !.buckets[b] = SubSeq(chain, 1, i - 1)
                                                  \o SubSeq(chain, i + 1, Len(chain)),
                                   !.num_entries = @ - 1]
                        /\ Commit(Run(Heap, <<Frame("decref", chain[i].value)>>
                                            \o stack, ub))
                        /\ UNCHANGED <<iv, held>>
                   ELSE UNCHANGED <<hv, heapVars, rcVars, oop_destroying,
                                    exit_status, strVars, arrVars, thrVars, joinVars, shareVars, lookVars, handlerVars, aliasVars>>
                /\ hash_model' = [hash_model EXCEPT ![key] = 0]
    /\ UNCHANGED <<strada_default_hash_capacity, oop_packages, oop_initialized,
                   excVars, closVars, call, strVars, arrVars, thrVars, joinVars, shareVars, lookVars, handlerVars, aliasVars>>

\* void strada_hash_reserve(StradaHash *hv, size_t num_buckets)
strada_hash_reserve(num_buckets) ==
    /\ Running
    /\ IF hv = NoHash \/ num_buckets <= hv.num_buckets
       THEN UNCHANGED hv
       ELSE hv' = [hv EXCEPT !.buckets = RehashFrom([i \in 1..num_buckets |-> <<>>],
                                                    hv.buckets, 1, hv.num_buckets,
                                                    num_buckets),
                             !.num_buckets = num_buckets]
    /\ UNCHANGED <<strada_default_hash_capacity, hash_model, oopVars, heapVars, excVars,
                   rcVars, closVars, exit_status, call, strVars, arrVars, thrVars,
                   joinVars, shareVars, lookVars, handlerVars, aliasVars>>

HashVals == 1..MaxHashVals

InitHash ==
    /\ HashInitial
    /\ oop_packages = <<>>
    /\ oop_initialized = FALSE
    /\ oop_destroying = 0
    /\ typ = [v \in HashVals |-> "NONE"]
    /\ refcount = [v \in HashVals |-> 0]
    /\ rv = [v \in HashVals |-> 0]
    /\ iv = [v \in HashVals |-> 0]
    /\ blessed_package = [v \in HashVals |-> NULL]
    /\ released = [v \in HashVals |-> 0]
    /\ free_value_log = [v \in HashVals |-> <<>>]
    /\ destroy_calls = [v \in HashVals |-> 0]
    /\ held = [v \in HashVals |-> 0]
    /\ stack = <<>>
    /\ exit_status = -1
    /\ call = NoCall
    /\ ExcInitial
    /\ AliasInitial
    /\ HandlerInitial
    /\ LookInitial
    /\ ShareInitial
    /\ JoinInitial
    /\ ThrInitial
    /\ ArrInitial
    /\ StrInitial
    /\ ClosInitial

\* the capacities the program asks for (0 is refused)
Capacities == {0, 1, 2, 3}

\* the bucket counts the program reserves (one below every table, one odd)
ReserveTo == {0, 5}

\* the program creates one hash, and keeps its own reference to every value
\* it stores
NextHash ==
    \/ \E c \in Capacities : hv = NoHash /\ strada_set_hash_default_capacity(c)
    \/ hv = NoHash /\ strada_hash_new
    \/ \E i \in {7} : hv = NoHash /\ strada_new_int(i)
    \/ \E k \in Keys, sv \in HashVals, ub \in UBOutcomes :
          hv # NoHash /\ held[sv] > 0 /\ strada_hash_set(k, sv, ub)
    \/ \E k \in Keys, ub \in UBOutcomes : hv # NoHash /\ strada_hash_delete(k, ub)
    \/ \E n \in ReserveTo : hv # NoHash /\ strada_hash_reserve(n)

SpecHash == InitHash /\ [][NextHash]_vars

\* C3: after any sequence of strada_hash_set and strada_hash_delete,
\* resizes included, strada_hash_exists and strada_hash_get agree with the
\* abstract key-to-value map for every key: a key set last to v yields v, a
\* key deleted or never set does not exist and yields Undef.
C3_HashAgreesWithMap ==
    hv # NoHash =>
        \A k \in Keys :
            /\ strada_hash_exists(hv, k) <=> hash_model[k] # 0
            /\ strada_hash_get(hv, k) = hash_model[k]

\* C3 witness: a table created with one bucket or two that strada_hash_resize
\* grew to eight, which then lost keys by strada_hash_delete and still finds
\* the two that are left
C3_Witness ==
    /\ strada_default_hash_capacity \in {1, 2}
    /\ hv.num_buckets = 8 /\ hv.num_entries = 2
    /\ hash_model[<<97>>] = 1 /\ hash_model[<<101>>] = 2
    /\ strada_hash_get(hv, <<97>>) = 1 /\ strada_hash_get(hv, <<101>>) = 2
    /\ ~strada_hash_exists(hv, <<98>>)

\* the entries of the table, each with the bucket (from 1) whose chain has it
EntriesOf(h) ==
    {e \in (1..h.num_buckets) \X (1..Cardinality(Keys)) : e[2] \in DOMAIN h.buckets[e[1]]}

RECURSIVE ChainLengths(_, _)
ChainLengths(h, b) ==
    IF b > h.num_buckets THEN 0 ELSE Len(h.buckets[b]) + ChainLengths(h, b + 1)

C25_TableShape ==
    hv # NoHash =>
        /\ hv.num_entries = ChainLengths(hv, 1)
        /\ \A e \in EntriesOf(hv) :
              BucketOf(hv, hv.buckets[e[1]][e[2]].key) + 1 = e[1]
        /\ \A e, f \in EntriesOf(hv) :
              e # f => hv.buckets[e[1]][e[2]].key # hv.buckets[f[1]][f[2]].key

C25_SetExistingStep ==
    \A k \in Keys, sv \in HashVals, ub \in UBOutcomes :
        (hv # NoHash /\ strada_hash_exists(hv, k) /\ strada_hash_set(k, sv, ub)) =>
            LET old == strada_hash_get(hv, k)
            IN  /\ hv'.num_entries = hv.num_entries
                /\ strada_hash_get(hv', k) = sv
                /\ IF old = sv THEN refcount' = refcount
                   ELSE /\ refcount'[old] = refcount[old] - 1
                        /\ refcount'[sv] = refcount[sv] + 1

\* C25: after every strada_hash_set, strada_hash_delete, resize and
\* strada_hash_reserve each key is in at most one entry, each entry is in
\* bucket hash(key) mod num_buckets, and num_entries is the number of
\* entries; strada_hash_set on an existing key leaves num_entries unchanged,
\* lowers the old value's count by one and raises the new value's by one.
C25_HashShape == []C25_TableShape /\ [][C25_SetExistingStep]_vars

\* C25 witness: a table reserved to five buckets and then doubled by
\* strada_hash_resize, holding three keys, two of them with the same value,
\* which has the two entries' counts and the program's own
C25_Witness ==
    /\ hv.num_buckets = 10 /\ hv.num_entries = 3
    /\ \E k1, k2 \in Keys :
          /\ k1 # k2 /\ strada_hash_get(hv, k1) = 2 /\ strada_hash_get(hv, k2) = 2
          /\ refcount[2] = 3 /\ refcount[1] = 2

(***************************************************************************)
(* Closures                                                                *)
(***************************************************************************)

\* model bound: the values of the closure scenario
MaxClosVals == 4

ClosVals == 1..MaxClosVals

\* a variable slot of a frame that has ended
Gone == -1

FrameLive == \A x \in FrameVars : frame_var[x] # Gone

\* the enclosing scope binds a variable to a new Int: my $x = i, or $x = i
\* which drops the variable's reference to the value it held
AssignVar(var, i, ub) ==
    /\ Running /\ CanAlloc
    /\ FrameLive
    /\ LET old == frame_var[var]
           h == [Heap EXCEPT !.typ[FreshId] = "INT", !.refcount[FreshId] = 1,
                             !.blessed_package[FreshId] = NULL]
       IN  /\ Commit(Run(h, (IF old = 0 THEN <<>> ELSE <<Frame("decref", old)>>)
                            \o stack, ub))
           /\ held' = [v \in DOMAIN held |->
                          IF v = FreshId THEN 1
                          ELSE IF v = old THEN held[v] - 1 ELSE held[v]]
    /\ iv' = [iv EXCEPT ![FreshId] = i]
    /\ frame_var' = [frame_var EXCEPT ![var] = FreshId]
    /\ UNCHANGED <<closure_of, created_with, last_closure_call, oop_packages,
                   oop_initialized, excVars, hashVars, call, strVars, arrVars, thrVars, joinVars, shareVars, lookVars, handlerVars, aliasVars>>

\* the values the frame's variables hold, one entry per variable
RECURSIVE VarDecrefs(_)
VarDecrefs(xs) ==
    IF xs = {} THEN <<>>
    ELSE LET x == CHOOSE y \in xs : TRUE
         IN  (IF frame_var[x] > 0 THEN <<Frame("decref", frame_var[x])>> ELSE <<>>)
             \o VarDecrefs(xs \ {x})

\* the enclosing frame ends: every variable drops its reference to its value
FrameEnd(ub) ==
    /\ Running
    /\ FrameLive
    /\ Commit(Run(Heap, VarDecrefs(FrameVars) \o stack, ub))
    /\ held' = [v \in DOMAIN held |->
                   held[v] - Cardinality({x \in FrameVars : frame_var[x] = v})]
    /\ frame_var' = [x \in FrameVars |-> Gone]
    /\ UNCHANGED <<iv, closure_of, created_with, last_closure_call, oop_packages,
                   oop_initialized, excVars, hashVars, call, strVars, arrVars, thrVars, joinVars, shareVars, lookVars, handlerVars, aliasVars>>

\* strada_closure_new would take no count on what it captures
CaptureIncrefsNone(cells) == <<>>

\* strada_closure_new: one strada_incref per non-NULL captured pointer
RECURSIVE CaptureIncrefs(_)
CaptureIncrefs(cells) ==
    IF cells = <<>> THEN <<>>
    ELSE (IF CellValue(Head(cells)) # 0
          THEN <<Frame("incref", CellValue(Head(cells)))>> ELSE <<>>)
         \o CaptureIncrefs(Tail(cells))

\* StradaValue* strada_closure_new(void *func, int params, int captures,
\*                                 StradaValue ***cap_array)
\* cap_array lists the variables whose addresses the array holds (<<>>: NULL)
strada_closure_new(func, params, captures, cap_array, ub) ==
    /\ Running /\ CanAlloc
    /\ FrameLive
    /\ captures = Len(cap_array)
    /\ LET cells == [i \in 1..captures |-> CaptureCell(cap_array[i])]
           h == [Heap EXCEPT !.typ[FreshId] = "CLOSURE", !.refcount[FreshId] = 1,
                             !.blessed_package[FreshId] = NULL]
       IN  /\ Commit(Run(h, CaptureIncrefs(cells) \o stack, ub))
           /\ closure_of' = [closure_of EXCEPT ![FreshId] =
                  [func_ptr |-> func, param_count |-> params,
                   capture_count |-> captures, captures |-> cells]]
           /\ created_with' = [created_with EXCEPT ![FreshId] =
                  [i \in 1..captures |-> frame_var[cap_array[i]]]]
    /\ held' = [held EXCEPT ![FreshId] = 1]
    /\ UNCHANGED <<iv, frame_var, last_closure_call, oop_packages,
                   oop_initialized, excVars, hashVars, call, strVars, arrVars, thrVars, joinVars, shareVars, lookVars, handlerVars, aliasVars>>

\* StradaValue* strada_closure_call(StradaValue *closure, int argc, ...):
\* which function it calls, if any, and the capture values it hands over
\* (the Undef it returns when it calls nothing is not kept)
strada_closure_call(closure, argc) ==
    /\ Running
    /\ LET none == [closure |-> closure, argc |-> argc, called |-> NULL,
                    captures |-> <<>>]
           cl == closure_of[closure]
       IN  last_closure_call' =
             IF closure = 0 THEN none
             ELSE IF typ[closure] = "CPOINTER"
             THEN (IF argc \in 0..5 THEN [none EXCEPT !.called = "plain"] ELSE none)
             ELSE IF typ[closure] # "CLOSURE" THEN none
             ELSE IF argc \in 0..5
             THEN [none EXCEPT !.called = cl.func_ptr,
                               !.captures = [i \in DOMAIN cl.captures |->
                                                CellValue(cl.captures[i])]]
             ELSE none
    /\ UNCHANGED <<frame_var, closure_of, created_with, oopVars, heapVars,
                   excVars, rcVars, hashVars, exit_status, call, strVars, arrVars, thrVars, joinVars, shareVars, lookVars, handlerVars, aliasVars>>

InitClosure ==
    /\ frame_var = [x \in FrameVars |-> 0]
    /\ closure_of = [v \in ClosVals |-> NoClosure]
    /\ created_with = [v \in ClosVals |-> <<>>]
    /\ last_closure_call = NoClosureCall
    /\ oop_packages = <<>>
    /\ oop_initialized = FALSE
    /\ oop_destroying = 0
    /\ typ = [v \in ClosVals |-> "NONE"]
    /\ refcount = [v \in ClosVals |-> 0]
    /\ rv = [v \in ClosVals |-> 0]
    /\ iv = [v \in ClosVals |-> 0]
    /\ blessed_package = [v \in ClosVals |-> NULL]
    /\ released = [v \in ClosVals |-> 0]
    /\ free_value_log = [v \in ClosVals |-> <<>>]
    /\ destroy_calls = [v \in ClosVals |-> 0]
    /\ held = [v \in ClosVals |-> 0]
    /\ stack = <<>>
    /\ exit_status = -1
    /\ call = NoCall
    /\ ExcInitial
    /\ AliasInitial
    /\ HandlerInitial
    /\ LookInitial
    /\ ShareInitial
    /\ JoinInitial
    /\ ThrInitial
    /\ ArrInitial
    /\ StrInitial
    /\ HashInitial

\* the variable lists closures are created over, and the argument counts
CapArrays == {<<>>, <<"x">>, <<"x", "y">>}
Argcs == {2, 6}

NextClosure ==
    \/ \E var \in FrameVars, i \in {1, 2}, ub \in UBOutcomes :
          \* a variable is first bound to 1 and rebound to 2
          /\ i = IF frame_var[var] = 0 THEN 1 ELSE 2
          /\ AssignVar(var, i, ub)
    \/ \E cap_array \in CapArrays, ub \in UBOutcomes :
          strada_closure_new("fC", 0, Len(cap_array), cap_array, ub)
    \/ \E closure \in {0} \cup ClosVals, argc \in Argcs :
          /\ IF closure = 0 THEN TRUE
             ELSE /\ held[closure] > 0
                  /\ typ[closure] = "CLOSURE" \/ closure = frame_var["x"]
          /\ strada_closure_call(closure, argc)
    \/ \E closure \in ClosVals, ub \in UBOutcomes :
          typ[closure] = "CLOSURE" /\ strada_decref(closure, ub)
    \/ \E ub \in UBOutcomes : FrameEnd(ub)

SpecClosure == InitClosure /\ [][NextClosure]_vars

CapturedBy(c) ==
    {CellValue(closure_of[c].captures[i]) : i \in DOMAIN closure_of[c].captures}
        \ {0}

\* the number of capture slots of the closure that hold the value
SlotsHolding(c, v) ==
    Cardinality({i \in DOMAIN closure_of[c].captures :
                    CellValue(closure_of[c].captures[i]) = v})

LiveClosure(c) == typ[c] = "CLOSURE" /\ released[c] = 0

C11_CapturedAllocated ==
    \A c \in ClosVals :
        LiveClosure(c) =>
            \A v \in CapturedBy(c) :
                released[v] = 0 /\ free_value_log[v] = <<>> /\ refcount[v] >= 1

C11_FreeTakesOneCountPerSlot ==
    \A c \in ClosVals :
        (LiveClosure(c) /\ released'[c] = 1) =>
            \A v \in CapturedBy(c) :
                refcount'[v] = refcount[v] - SlotsHolding(c, v)

\* C11: every value captured by a live closure is still allocated, with a
\* count of at least one, whatever the creating frame has dropped or rebound
\* since; and the step that frees a closure lowers the count of each
\* captured value by one per capture slot, the count taken at creation.
C11_CapturedOutliveFrame ==
    []C11_CapturedAllocated /\ [][C11_FreeTakesOneCountPerSlot]_vars

\* C11 witness: the frame has ended, and a live closure's captured value is
\* kept by the closure's count alone
C11_Witness ==
    \E c \in ClosVals :
        /\ LiveClosure(c)
        /\ \E v \in CapturedBy(c) :
              held[v] = 0 /\ refcount[v] = 1 /\ released[v] = 0
        /\ ~FrameLive

(***************************************************************************)
(* Assignment through a reference                                          *)
(***************************************************************************)

\* model bound: value ids malloc hands out
MaxDsVals == 3
\* model bound: the count up to which the program goes on sharing a value
MaxDsCount == 3
DsVals == 1..MaxDsVals

\* what malloc'd storage may hold in a field no constructor writes
GarbageSizes == {0, 7}

\* the byte strings of the program: "hi", "hello" and the binary "a\0b"
Strings == {<<104, 105>>, <<104, 101, 108, 108, 111>>, <<97, 0, 98>>}

\* StradaValue* strada_new_str_len(const char *s, size_t len), s not NULL
strada_new_str_len(s, len) ==
    /\ Running /\ CanAlloc
    /\ typ' = [typ EXCEPT ![FreshId] = "STR"]
    /\ refcount' = [refcount EXCEPT ![FreshId] = 1]
    /\ blessed_package' = [blessed_package EXCEPT ![FreshId] = NULL]
    /\ pv' = [pv EXCEPT ![FreshId] = IF len > 0 THEN SubSeq(s, 1, len) ELSE <<>>]
    /\ struct_size' = [struct_size EXCEPT ![FreshId] = IF len > 0 THEN len ELSE 0]
    /\ held' = [held EXCEPT ![FreshId] = 1]
    /\ UNCHANGED <<rv, iv, released, free_value_log, destroy_calls, stack, oopVars,
                   excVars, hashVars, closVars, exit_status, call, arrVars, thrVars, joinVars, shareVars, lookVars, handlerVars, aliasVars>>

\* size_t strada_str_len(StradaValue *sv)
strada_str_len(sv) ==
    IF sv = 0 \/ typ[sv] # "STR" THEN 0
    ELSE IF struct_size[sv] > 0 THEN struct_size[sv]
    ELSE IF pv[sv] = NoString THEN 0 ELSE Len(CString(pv[sv]))

\* strada_deref_set: free(target->value.pv) of a string target
FreeOldString(target) ==
    IF typ[target] = "STR" /\ pv[target] # NoString
    THEN [pv EXCEPT ![target] = NoString] ELSE pv

\* strada_deref_set, cases STRADA_ARRAY and STRADA_HASH: the target takes
\* new_value's container pointer and strada_incref(new_value) counts the
\* Value new_value, the container's own count staying as it is
DerefSetCounted(new_value) == new_value

\* StradaValue* strada_deref_set(StradaValue *ref, StradaValue *new_value),
\* neither NULL
strada_deref_set(ref, new_value) ==
    /\ Running
    /\ held[ref] > 0 /\ held[new_value] > 0
    /\ LET target == rv[ref]
           pv1 == FreeOldString(target)
           ty == typ[new_value]
       IN  IF typ[ref] # "REF" \/ target = 0
           THEN UNCHANGED <<typ, refcount, rv, iv, pv>>
           ELSE /\ typ' = [typ EXCEPT ![target] = ty]
                /\ iv' = IF ty = "INT" THEN [iv EXCEPT ![target] = iv[new_value]] ELSE iv
                /\ pv' = IF ty = "STR"
                         THEN [pv1 EXCEPT ![target] =
                                  IF pv1[new_value] # NoString
                                  THEN CString(pv1[new_value]) ELSE NoString]
                         ELSE pv1
                /\ rv' = IF ty = "REF" THEN [rv EXCEPT ![target] = rv[new_value]] ELSE rv
                /\ refcount' = IF ty = "REF" /\ rv[new_value] # 0
                               THEN [refcount EXCEPT ![rv[new_value]] = @ + 1]
                               ELSE IF \/ ty = "ARRAY" /\ av # NoArray
                                       \/ ty = "HASH" /\ hv # NoHash
                               THEN [refcount EXCEPT ![DerefSetCounted(new_value)] = @ + 1]
                               ELSE refcount
    /\ UNCHANGED <<blessed_package, struct_size, rcVars, oopVars, excVars, hashVars,
                   closVars, exit_status, call, arrVars, thrVars, joinVars, shareVars, lookVars, handlerVars, aliasVars>>

InitDerefSet ==
    /\ oop_packages = <<>>
    /\ oop_initialized = FALSE
    /\ oop_destroying = 0
    /\ typ = [v \in DsVals |-> "NONE"]
    /\ refcount = [v \in DsVals |-> 0]
    /\ rv = [v \in DsVals |-> 0]
    /\ iv = [v \in DsVals |-> 0]
    /\ blessed_package = [v \in DsVals |-> NULL]
    /\ pv = [v \in DsVals |-> NoString]
    /\ \E garbage \in GarbageSizes : struct_size = [v \in DsVals |-> garbage]
    /\ released = [v \in DsVals |-> 0]
    /\ free_value_log = [v \in DsVals |-> <<>>]
    /\ destroy_calls = [v \in DsVals |-> 0]
    /\ held = [v \in DsVals |-> 0]
    /\ stack = <<>>
    /\ exit_status = -1
    /\ call = NoCall
    /\ ExcInitial
    /\ AliasInitial
    /\ HandlerInitial
    /\ LookInitial
    /\ ShareInitial
    /\ JoinInitial
    /\ ThrInitial
    /\ ArrInitial
    /\ HashInitial
    /\ ClosInitial

NextDerefSet ==
    \/ strada_new_int(7)
    \/ \E s \in Strings : strada_new_str_len(s, Len(s))
    \/ \E sv \in DsVals, ub \in UBOutcomes :
          refcount[sv] < MaxDsCount /\ strada_ref_create(sv, ub)
    \/ \E ref \in DsVals :
          /\ typ[ref] = "REF" /\ held[ref] > 0 /\ blessed_package[ref] = NULL
          /\ strada_bless(ref, "B")
    \/ \E ref, new_value \in DsVals :
          /\ \A v \in DsVals : refcount[v] < MaxDsCount
          /\ strada_deref_set(ref, new_value)
    \/ \E sv \in DsVals, ub \in UBOutcomes : strada_decref(sv, ub)

SpecDerefSet == InitDerefSet /\ [][NextDerefSet]_vars

\* the payload of a value, as its type tag selects it
Payload(v) ==
    CASE typ[v] = "INT" -> iv[v]
      [] typ[v] = "STR" -> pv[v]
      [] typ[v] = "REF" -> rv[v]
      [] OTHER -> 0

\* C13 (as claimed): a step strada_deref_set(r, v) through a Reference r
\* leaves the referent where every Reference to it still points, keeps the
\* referent's count, and makes its type tag, its payload and its
\* strada_str_len equal to v's.
C13_DerefSetStep ==
    \A r, v \in DsVals :
        (typ[r] = "REF" /\ Allocated(r) /\ Allocated(v) /\ strada_deref_set(r, v)) =>
            LET t == rv[r]
            IN  /\ \A r2 \in DsVals : (typ[r2] = "REF" /\ rv[r2] = t /\ r2 # t) => rv'[r2] = t
                /\ refcount'[t] = refcount[t]
                /\ typ'[t] = typ'[v]
                /\ Payload(t)' = Payload(v)'
                /\ strada_str_len(t)' = strada_str_len(v)'

C13_DerefSetObserved == [][C13_DerefSetStep]_vars

\* C16 (as claimed): a Value whose type is not Reference carries no
\* blessed-package tag.
C16_NoTagOnNonReference ==
    \A v \in DOMAIN typ :
        (typ[v] # "NONE" /\ released[v] = 0 /\ typ[v] # "REF") => blessed_package[v] = NULL

(***************************************************************************)
(* Arrays                                                                  *)
(***************************************************************************)

\* model bounds: value ids malloc hands out, and the length up to which the
\* program grows the array
MaxArrVals == 3
MaxArrLen == 2
ArrVals == 1..MaxArrVals

\* the result of a call that returns strada_new_undef()
FreshUndef == -1

\* a negative index would count from the front
NormIndexAbs(size, idx) == IF idx < 0 THEN -idx ELSE idx

\* strada_array_get / strada_array_set: idx = (int64_t)av->size + idx for idx < 0
NormIndex(size, idx) == IF idx < 0 THEN size + idx ELSE idx

\* the elements below av->size
Contents(a) == SubSeq(a.elements, 1, a.size)

\* av->capacity *= 2; realloc: the new slots are storage nothing has written
GrowArray(a) ==
    [a EXCEPT !.capacity = 2 * @,
              !.elements = @ \o [i \in 1..a.capacity |-> 0]]

\* strada_array_push, the array part: av->elements[av->size++] = sv
PushAv(a, sv) ==
    LET a1 == IF a.size >= a.capacity THEN GrowArray(a) ELSE a
    IN  [a1 EXCEPT !.elements[a1.size + 1] = sv, !.size = @ + 1]

\* strada_array_pop: return av->elements[--av->size]
PopAv(a) ==
    IF a.size = 0 THEN [av |-> a, result |-> FreshUndef]
    ELSE [av |-> [a EXCEPT !.size = @ - 1], result |-> ElementAt(a, a.size - 1)]

\* StradaValue* strada_array_get(StradaArray *av, int64_t idx), av not NULL
strada_array_get(a, idx) ==
    LET i == NormIndex(a.size, idx)
    IN  IF i < 0 \/ i >= a.size THEN FreshUndef ELSE ElementAt(a, i)

\* strada_array_set: while (uidx >= av->capacity) double
RECURSIVE GrowTo(_, _)
GrowTo(a, uidx) == IF uidx >= a.capacity THEN GrowTo(GrowArray(a), uidx) ELSE a

\* the size the fill loop would stop at, one slot short
PadUpToIndex(size, uidx) == IF size <= uidx THEN uidx ELSE size

\* strada_array_set: the size the loop while (av->size <= uidx) stops at
PadUpTo(size, uidx) == IF size <= uidx THEN uidx + 1 ELSE size

\* the n lowest ids malloc has not handed out, in a sequence
RECURSIVE FreshIds(_, _)
FreshIds(free, n) ==
    IF n = 0 THEN <<>>
    ELSE LET v == CHOOSE x \in free : \A y \in free : x <= y
         IN  <<v>> \o FreshIds(free \ {v}, n - 1)

FreeIds == {v \in DOMAIN typ : typ[v] = "NONE"}

\* void strada_set_array_default_capacity(int64_t capacity)
strada_set_array_default_capacity(capacity) ==
    /\ Running
    /\ strada_default_array_capacity' =
          IF capacity > 0 THEN capacity ELSE strada_default_array_capacity
    /\ UNCHANGED <<av, heapVars, rcVars, oopVars, excVars, hashVars, closVars, strVars,
                   exit_status, call, thrVars, joinVars, shareVars, lookVars, handlerVars, aliasVars>>

\* StradaArray* strada_array_new(void)
strada_array_new ==
    /\ Running
    /\ av' = [elements |-> [i \in 1..strada_default_array_capacity |-> 0],
              size |-> 0, capacity |-> strada_default_array_capacity, refcount |-> 1]
    /\ UNCHANGED <<strada_default_array_capacity, heapVars, rcVars, oopVars, excVars,
                   hashVars, closVars, strVars, exit_status, call, thrVars, joinVars, shareVars, lookVars, handlerVars, aliasVars>>

\* void strada_array_push(StradaArray *av, StradaValue *sv), av not NULL
strada_array_push(sv, ub) ==
    /\ Running
    /\ av # NoArray /\ held[sv] > 0
    /\ av' = PushAv(av, sv)
    /\ Commit(Run(Heap, <<Frame("incref", sv)>> \o stack, ub))
    /\ UNCHANGED <<strada_default_array_capacity, iv, held, oop_packages, oop_initialized,
                   excVars, hashVars, closVars, strVars, call, thrVars, joinVars, shareVars, lookVars, handlerVars, aliasVars>>

\* StradaValue* strada_array_pop(StradaArray *av), av not NULL: the caller
\* takes over the reference the array held
strada_array_pop ==
    /\ Running
    /\ av # NoArray
    /\ av' = PopAv(av).av
    /\ IF PopAv(av).result = FreshUndef
       THEN /\ CanAlloc
            /\ typ' = [typ EXCEPT ![FreshId] = "UNDEF"]
            /\ refcount' = [refcount EXCEPT ![FreshId] = 1]
            /\ blessed_package' = [blessed_package EXCEPT ![FreshId] = NULL]
            /\ held' = [held EXCEPT ![FreshId] = 1]
       ELSE /\ held' = [held EXCEPT ![PopAv(av).result] = @ + 1]
            /\ UNCHANGED <<typ, refcount, blessed_package>>
    /\ UNCHANGED <<strada_default_array_capacity, rv, iv, released, free_value_log,
                   destroy_calls, stack, oopVars, excVars, hashVars, closVars, strVars,
                   exit_status, call, thrVars, joinVars, shareVars, lookVars, handlerVars, aliasVars>>

\* void strada_array_set(StradaArray *av, int64_t idx, StradaValue *sv), av not NULL
strada_array_set(idx, sv, ub) ==
    /\ Running
    /\ av # NoArray
    /\ LET uidx == NormIndex(av.size, idx)
       IN  IF uidx < 0
           THEN UNCHANGED <<av, typ, refcount, rv, blessed_package, released,
                            free_value_log, destroy_calls, oop_destroying, stack,
                            exit_status>>
           ELSE LET a1 == GrowTo(av, uidx)
                    size1 == PadUpTo(av.size, uidx)
                    undefs == FreshIds(FreeIds, size1 - av.size)
                    a2 == [a1 EXCEPT !.size = size1,
                                     !.elements = [i \in DOMAIN a1.elements |->
                                         IF i > av.size /\ i <= size1
                                         THEN undefs[i - av.size] ELSE a1.elements[i]]]
                    h == [Heap EXCEPT
                            !.typ = [v \in DOMAIN typ |->
                                       IF \E k \in DOMAIN undefs : undefs[k] = v
                                       THEN "UNDEF" ELSE typ[v]],
                            !.refcount = [v \in DOMAIN typ |->
                                       IF \E k \in DOMAIN undefs : undefs[k] = v
                                       THEN 1 ELSE refcount[v]]]
                    old == ElementAt(a2, uidx)
                IN  /\ Cardinality(FreeIds) >= size1 - av.size
                    /\ av' = [a2 EXCEPT !.elements[uidx + 1] = sv]
                    /\ Commit(Run(h, (IF old # 0 THEN <<Frame("decref", old)>> ELSE <<>>)
                                     \o <<Frame("incref", sv)>> \o stack, ub))
    /\ UNCHANGED <<strada_default_array_capacity, iv, held, oop_packages, oop_initialized,
                   excVars, hashVars, closVars, strVars, call, thrVars, joinVars, shareVars, lookVars, handlerVars, aliasVars>>

InitArray ==
    /\ oop_packages = <<>>
    /\ oop_initialized = FALSE
    /\ oop_destroying = 0
    /\ typ = [v \in ArrVals |-> "NONE"]
    /\ refcount = [v \in ArrVals |-> 0]
    /\ rv = [v \in ArrVals |-> 0]
    /\ iv = [v \in ArrVals |-> 0]
    /\ blessed_package = [v \in ArrVals |-> NULL]
    /\ released = [v \in ArrVals |-> 0]
    /\ free_value_log = [v \in ArrVals |-> <<>>]
    /\ destroy_calls = [v \in ArrVals |-> 0]
    /\ held = [v \in ArrVals |-> 0]
    /\ stack = <<>>
    /\ exit_status = -1
    /\ call = NoCall
    /\ ExcInitial
    /\ AliasInitial
    /\ HandlerInitial
    /\ LookInitial
    /\ ShareInitial
    /\ JoinInitial
    /\ ThrInitial
    /\ StrInitial
    /\ ArrInitial
    /\ HashInitial
    /\ ClosInitial

ArrayCapacities == {0, 1}
Indices == (-MaxArrLen)..(MaxArrLen - 1)

\* a freed value is involved only if some value has been freed: before
\* that the two outcomes of touching freed storage do not differ
UBChoice(ub) == (\A v \in DOMAIN released : released[v] = 0) => ub = "crash"

NextArray ==
    \/ \E capacity \in ArrayCapacities :
          av = NoArray /\ strada_set_array_default_capacity(capacity)
    \/ av = NoArray /\ strada_array_new
    \/ av # NoArray /\ strada_new_int(7)
    \/ \E sv \in ArrVals, ub \in UBOutcomes :
          /\ UBChoice(ub)
          /\ av.size < MaxArrLen /\ released[sv] = 0 /\ refcount[sv] < MaxArrLen
          /\ strada_array_push(sv, ub)
    \/ /\ PopAv(av).result # FreshUndef => held[PopAv(av).result] = 0
       /\ strada_array_pop
    \/ \E idx \in Indices, sv \in ArrVals, ub \in UBOutcomes :
          /\ UBChoice(ub)
          /\ released[sv] = 0 /\ refcount[sv] < MaxArrLen /\ held[sv] > 0
          /\ strada_array_set(idx, sv, ub)
    \/ \E sv \in ArrVals, ub \in UBOutcomes : UBChoice(ub) /\ strada_decref(sv, ub)

SpecArray == InitArray /\ [][NextArray]_vars

\* C14: on every array the program reaches, get(-k) equals get(length-k)
\* for 1 <= k <= length; and for every value v, after push(v) both get(-1)
\* and get(length-1) return v, and the pop that follows returns v and leaves
\* the length and the contents as they were before the push.
C14_PushThenPop ==
    av # NoArray =>
        /\ \A k \in 1..av.size :
              /\ strada_array_get(av, -k) = strada_array_get(av, av.size - k)
              /\ strada_array_get(av, -k) # FreshUndef
        /\ \A v \in ArrVals :
              LET pushed == PushAv(av, v)
                  popped == PopAv(pushed)
              IN  /\ pushed.size = av.size + 1
                  /\ strada_array_get(pushed, -1) = v
                  /\ strada_array_get(pushed, pushed.size - 1) = v
                  /\ popped.result = v
                  /\ popped.av.size = av.size
                  /\ Contents(popped.av) = Contents(av)

\* C14 witness: the array was full, a push made it grow, and a pop handed
\* the pushed value to the caller: its pointer is still in the slot past
\* the end, and the last element is what get(-1) returns
C14_Witness ==
    /\ av # NoArray /\ av.size = 1 /\ av.capacity = 2
    /\ strada_default_array_capacity = 1
    /\ ElementAt(av, 1) # 0 /\ held[ElementAt(av, 1)] > 0
    /\ strada_array_get(av, -1) = ElementAt(av, 0)

C15_SetStep ==
    \A idx \in Indices, sv \in ArrVals, ub \in UBOutcomes :
        (av # NoArray /\ idx >= av.size /\ strada_array_set(idx, sv, ub)) =>
            /\ av'.size = idx + 1
            /\ ElementAt(av', idx) = sv
            /\ \A i \in av.size..(idx - 1) :
                  LET u == ElementAt(av', i)
                  IN  /\ u \in ArrVals /\ typ[u] = "NONE" /\ typ'[u] = "UNDEF"
                      /\ refcount'[u] = 1 /\ released'[u] = 0
                      /\ \A j \in av.size..(idx - 1) : ElementAt(av', j) = u => j = i
            /\ \A i \in 0..(av.size - 1) : ElementAt(av', i) = ElementAt(av, i)
            /\ av'.size <= av'.capacity /\ Len(av'.elements) = av'.capacity
            /\ \E n \in 0..MaxArrLen :
                  /\ av'.capacity = av.capacity * (2 ^ n)
                  /\ n > 0 => av'.capacity \div 2 <= idx

\* C15: strada_array_set(av, idx, v) with idx at or beyond the length makes
\* the length idx+1 with v at idx, puts a fresh Undef of its own into every
\* slot from the old length to idx-1, leaves the slots below the old length
\* alone, and keeps size <= capacity, the capacity being doubled as often as
\* needed and no more.
C15_SetBeyondLength == [][C15_SetStep]_vars

\* C15 witness: a set at index 1 of an empty array of capacity 1 has run:
\* the capacity is 2, slot 0 holds an Undef that only the array owns, slot 1
\* the value, and the Undef made for slot 1 has been released again
C15_Witness ==
    /\ av # NoArray /\ av.size = 2 /\ av.capacity = 2
    /\ strada_default_array_capacity = 1
    /\ typ[ElementAt(av, 0)] = "UNDEF" /\ held[ElementAt(av, 0)] = 0
    /\ refcount[ElementAt(av, 0)] = 1
    /\ typ[ElementAt(av, 1)] = "INT"
    /\ \E u \in ArrVals : typ[u] = "UNDEF" /\ released[u] = 1

(***************************************************************************)
(* Threads sharing one value: strada_incref and strada_decref              *)
(***************************************************************************)

\* model bounds: the threads, and the references one thread owns at a time
MaxThreads == 2
MaxOwned == 2
Threads == 1..MaxThreads

\* the value the threads share
Shared == 1

\* the update would work on the count the thread saw when it entered
SyncOperandAtCall(t) == count_at_call[t]

\* __sync_add_and_fetch / __sync_sub_and_fetch: the read and the write are
\* one atomic step on the count as it is now
SyncOperand(t) == refcount[Shared]

RECURSIVE SumOwned(_)
SumOwned(ts) ==
    IF ts = {} THEN 0
    ELSE LET t == CHOOSE x \in ts : TRUE IN thread_owns[t] + SumOwned(ts \ {t})

\* thread t enters strada_incref(sv) on a value it owns a reference to
CallIncref(t) ==
    /\ Running
    /\ thread_pc[t] = "idle" /\ thread_owns[t] > 0
    /\ thread_pc' = [thread_pc EXCEPT ![t] = "incref"]
    /\ count_at_call' = [count_at_call EXCEPT ![t] = refcount[Shared]]
    /\ UNCHANGED <<thread_owns, sync_result, freed_by, heapVars, rcVars, oopVars, excVars,
                   hashVars, closVars, strVars, arrVars, exit_status, call, joinVars, shareVars, lookVars, handlerVars, aliasVars>>

\* strada_incref: __sync_add_and_fetch(&sv->refcount, 1)
SyncAddAndFetch(t) ==
    /\ Running
    /\ thread_pc[t] = "incref"
    /\ refcount' = [refcount EXCEPT ![Shared] = SyncOperand(t) + 1]
    /\ thread_owns' = [thread_owns EXCEPT ![t] = @ + 1]
    /\ thread_pc' = [thread_pc EXCEPT ![t] = "idle"]
    /\ count_at_call' = [count_at_call EXCEPT ![t] = 0]
    /\ UNCHANGED <<sync_result, freed_by, typ, rv, iv, blessed_package,
                   rcVars, oopVars, excVars, hashVars, closVars, strVars, arrVars,
                   exit_status, call, joinVars, shareVars, lookVars, handlerVars, aliasVars>>

\* thread t enters strada_decref(sv) to give up a reference it owns
CallDecref(t) ==
    /\ Running
    /\ thread_pc[t] = "idle" /\ thread_owns[t] > 0
    /\ thread_pc' = [thread_pc EXCEPT ![t] = "decref"]
    /\ count_at_call' = [count_at_call EXCEPT ![t] = refcount[Shared]]
    /\ UNCHANGED <<thread_owns, sync_result, freed_by, heapVars, rcVars, oopVars, excVars,
                   hashVars, closVars, strVars, arrVars, exit_status, call, joinVars, shareVars, lookVars, handlerVars, aliasVars>>

\* strada_decref: if (__sync_sub_and_fetch(&sv->refcount, 1) <= 0)
SyncSubAndFetch(t) ==
    /\ Running
    /\ thread_pc[t] = "decref"
    /\ refcount' = [refcount EXCEPT ![Shared] = SyncOperand(t) - 1]
    /\ sync_result' = [sync_result EXCEPT ![t] = SyncOperand(t) - 1]
    /\ thread_owns' = [thread_owns EXCEPT ![t] = @ - 1]
    /\ thread_pc' = [thread_pc EXCEPT ![t] =
                        IF DecrefFreesAt(SyncOperand(t) - 1) THEN "free" ELSE "idle"]
    /\ count_at_call' = [count_at_call EXCEPT ![t] = 0]
    /\ UNCHANGED <<freed_by, typ, rv, iv, blessed_package,
                   rcVars, oopVars, excVars, hashVars, closVars, strVars, arrVars,
                   exit_status, call, joinVars, shareVars, lookVars, handlerVars, aliasVars>>

\* strada_decref: strada_free_value(sv)
ThreadFreeValue(t, ub) ==
    /\ Running
    /\ thread_pc[t] = "free"
    /\ Commit(Run(Heap, <<Frame("free_value", Shared)>>, ub))
    /\ freed_by' = Append(freed_by, t)
    /\ thread_pc' = [thread_pc EXCEPT ![t] = "idle"]
    /\ UNCHANGED <<thread_owns, count_at_call, sync_result, iv, held, oop_packages,
                   oop_initialized, excVars, hashVars, closVars, strVars, arrVars, call, joinVars, shareVars, lookVars, handlerVars, aliasVars>>

InitThreads ==
    /\ oop_packages = <<>>
    /\ oop_initialized = FALSE
    /\ oop_destroying = 0
    /\ typ = [v \in {Shared} |-> "INT"]
    /\ refcount = [v \in {Shared} |-> MaxThreads]
    /\ rv = [v \in {Shared} |-> 0]
    /\ iv = [v \in {Shared} |-> 7]
    /\ blessed_package = [v \in {Shared} |-> NULL]
    /\ released = [v \in {Shared} |-> 0]
    /\ free_value_log = [v \in {Shared} |-> <<>>]
    /\ destroy_calls = [v \in {Shared} |-> 0]
    /\ held = [v \in {Shared} |-> 0]
    /\ stack = <<>>
    /\ thread_pc = [t \in Threads |-> "idle"]
    /\ thread_owns = [t \in Threads |-> 1]
    /\ count_at_call = [t \in Threads |-> 0]
    /\ sync_result = [t \in Threads |-> 0]
    /\ freed_by = <<>>
    /\ exit_status = -1
    /\ call = NoCall
    /\ ExcInitial
    /\ AliasInitial
    /\ HandlerInitial
    /\ LookInitial
    /\ ShareInitial
    /\ JoinInitial
    /\ StrInitial
    /\ ArrInitial
    /\ HashInitial
    /\ ClosInitial

NextThreads ==
    \/ \E t \in Threads : thread_owns[t] < MaxOwned /\ CallIncref(t)
    \/ \E t \in Threads : SyncAddAndFetch(t)
    \/ \E t \in Threads : CallDecref(t)
    \/ \E t \in Threads : SyncSubAndFetch(t)
    \/ \E t \in Threads, ub \in UBOutcomes : UBChoice(ub) /\ ThreadFreeValue(t, ub)

SpecThreads == InitThreads /\ [][NextThreads]_vars

\* C17: under every interleaving the count equals the references the
\* threads own (the initial ones plus the increfs minus the decrefs); the
\* thread that calls strada_free_value is the one whose decrement returned
\* zero, it is the only one, it calls at count zero, and the value is freed
\* once all references are given up and no call is in progress.
C17_NoLostUpdate ==
    /\ refcount[Shared] = SumOwned(Threads)
    /\ Len(freed_by) <= 1 /\ released[Shared] <= 1
    /\ Len(free_value_log[Shared]) = Len(freed_by)
    /\ \A i \in DOMAIN free_value_log[Shared] : free_value_log[Shared][i].count = 0
    /\ \A t \in Threads : thread_pc[t] = "free" => sync_result[t] = 0
    /\ \A i \in DOMAIN freed_by : sync_result[freed_by[i]] = 0
    /\ (SumOwned(Threads) = 0 /\ \A t \in Threads : thread_pc[t] = "idle")
          <=> released[Shared] = 1

\* C17 witness: every thread has given up its references, the decrement
\* of one thread returned 1 and that of another returned 0, and that other
\* thread has freed the value
C17_Witness ==
    /\ released[Shared] = 1
    /\ \A w \in Threads : thread_pc[w] = "idle" /\ thread_owns[w] = 0
    /\ \E t, u \in Threads :
          /\ t # u /\ sync_result[u] = 1 /\ sync_result[t] = 0
          /\ freed_by = <<t>>

(***************************************************************************)
(* Thread handles: create, join, detach                                    *)
(***************************************************************************)

\* model bound: the threads the program starts on one closure
MaxHandles == 2
\* model bound: the calls of strada_thread_join on one handle
MaxJoinCalls == 2
Handles == 1..MaxHandles

\* value ids: the closure, and the value each thread's closure call returns
TheClosure == 1
ResultOf(h) == 1 + h
JoinVals == 1..(1 + MaxHandles)

NoThread == [alloc |-> "none", closure |-> 0, result |-> 0, run |-> "none",
             detached |-> FALSE]
NoHandle == [created |-> FALSE, type |-> "NONE", ptr |-> 0]

\* what pthread_create returns: 0, or EAGAIN
PthreadCreateResults == {0, 11}

\* StradaValue* strada_thread_create(StradaValue *closure); rc is what
\* pthread_create returns
strada_thread_create(h, closure, rc, ub) ==
    /\ Running
    /\ ~thread_val[h].created
    /\ closure # 0 => held[closure] > 0
    /\ IF closure = 0
       THEN /\ thread_val' = [thread_val EXCEPT ![h] =
                                 [created |-> TRUE, type |-> "INT", ptr |-> 0]]
            /\ UNCHANGED <<st, typ, refcount, rv, blessed_package, released,
                           free_value_log, destroy_calls, oop_destroying, stack,
                           exit_status>>
       ELSE IF typ[closure] # "CLOSURE"
       THEN /\ thread_val' = [thread_val EXCEPT ![h] =
                                 [created |-> TRUE, type |-> "INT", ptr |-> 0]]
            /\ UNCHANGED <<st, typ, refcount, rv, blessed_package, released,
                           free_value_log, destroy_calls, oop_destroying, stack,
                           exit_status>>
       ELSE IF rc # 0
       THEN /\ Commit(Run(Heap, <<Frame("incref", closure), Frame("decref", closure)>>
                                \o stack, ub))
            /\ st' = [st EXCEPT ![h] = [NoThread EXCEPT !.alloc = "freed"]]
            /\ thread_val' = [thread_val EXCEPT ![h] =
                                 [created |-> TRUE, type |-> "INT", ptr |-> 0]]
       ELSE /\ Commit(Run(Heap, <<Frame("incref", closure)>> \o stack, ub))
            /\ st' = [st EXCEPT ![h] = [alloc |-> "live", closure |-> closure,
                                        result |-> 0, run |-> "running",
                                        detached |-> FALSE]]
            /\ thread_val' = [thread_val EXCEPT ![h] =
                                 [created |-> TRUE, type |-> "CPOINTER", ptr |-> h]]
    /\ UNCHANGED <<join_returns, iv, held, oop_packages, oop_initialized, excVars, hashVars,
                   closVars, strVars, arrVars, thrVars, call, shareVars, lookVars, handlerVars, aliasVars>>

\* strada_thread_wrapper: st->result = strada_closure_call(st->closure, 0),
\* the closure returning a new value
strada_thread_wrapper(h) ==
    /\ Running
    /\ st[h].alloc = "live" /\ st[h].run = "running"
    /\ typ' = [typ EXCEPT ![ResultOf(h)] = "INT"]
    /\ refcount' = [refcount EXCEPT ![ResultOf(h)] = 1]
    /\ iv' = [iv EXCEPT ![ResultOf(h)] = h]
    /\ st' = [st EXCEPT ![h].result = ResultOf(h), ![h].run = "finished"]
    /\ UNCHANGED <<thread_val, join_returns, rv, blessed_package, rcVars, oopVars, excVars,
                   hashVars, closVars, strVars, arrVars, thrVars, exit_status, call, shareVars, lookVars, handlerVars, aliasVars>>

\* strada_thread_join: strada_decref(st->closure)
JoinRelease(closure) == <<Frame("decref", closure)>>

\* StradaValue* strada_thread_join(StradaValue *thread_val): pthread_join
\* waits for the thread to finish; on a detached thread it fails
strada_thread_join(h, ub) ==
    /\ Running
    /\ thread_val[h].created
    /\ IF thread_val[h].type # "CPOINTER" \/ thread_val[h].ptr = 0 \/ st[h].detached
       THEN /\ join_returns' = [join_returns EXCEPT ![h] = Append(@, FreshUndef)]
            /\ UNCHANGED <<st, thread_val, held, typ, refcount, rv, blessed_package,
                           released, free_value_log, destroy_calls, oop_destroying,
                           stack, exit_status>>
       ELSE /\ st[h].run = "finished"
            /\ join_returns' = [join_returns EXCEPT ![h] =
                  Append(@, IF st[h].result # 0 THEN st[h].result ELSE FreshUndef)]
            /\ held' = IF st[h].result # 0
                       THEN [held EXCEPT ![st[h].result] = @ + 1] ELSE held
            /\ Commit(Run(Heap, JoinRelease(st[h].closure) \o stack, ub))
            /\ st' = [st EXCEPT ![h].alloc = "freed"]
            /\ thread_val' = [thread_val EXCEPT ![h].ptr = 0]
    /\ UNCHANGED <<iv, oop_packages, oop_initialized, excVars, hashVars, closVars,
                   strVars, arrVars, thrVars, call, shareVars, lookVars, handlerVars, aliasVars>>

\* StradaValue* strada_thread_detach(StradaValue *thread_val): pthread_detach
\* and nothing else
strada_thread_detach(h) ==
    /\ Running
    /\ thread_val[h].created
    /\ IF thread_val[h].type # "CPOINTER" \/ thread_val[h].ptr = 0
       THEN UNCHANGED st
       ELSE st' = [st EXCEPT ![h].detached = TRUE]
    /\ UNCHANGED <<thread_val, join_returns, heapVars, rcVars, oopVars, excVars, hashVars,
                   closVars, strVars, arrVars, thrVars, exit_status, call, shareVars, lookVars, handlerVars, aliasVars>>

InitJoin ==
    /\ oop_packages = <<>>
    /\ oop_initialized = FALSE
    /\ oop_destroying = 0
    /\ typ = [v \in JoinVals |-> IF v = TheClosure THEN "CLOSURE" ELSE "NONE"]
    /\ refcount = [v \in JoinVals |-> IF v = TheClosure THEN 1 ELSE 0]
    /\ rv = [v \in JoinVals |-> 0]
    /\ iv = [v \in JoinVals |-> 0]
    /\ blessed_package = [v \in JoinVals |-> NULL]
    /\ released = [v \in JoinVals |-> 0]
    /\ free_value_log = [v \in JoinVals |-> <<>>]
    /\ destroy_calls = [v \in JoinVals |-> 0]
    /\ held = [v \in JoinVals |-> IF v = TheClosure THEN 1 ELSE 0]
    /\ stack = <<>>
    /\ frame_var = [x \in FrameVars |-> 0]
    /\ closure_of = [v \in JoinVals |-> NoClosure]
    /\ created_with = <<>>
    /\ last_closure_call = NoClosureCall
    /\ st = [h \in Handles |-> NoThread]
    /\ thread_val = [h \in Handles |-> NoHandle]
    /\ join_returns = [h \in Handles |-> <<>>]
    /\ exit_status = -1
    /\ call = NoCall
    /\ ExcInitial
    /\ AliasInitial
    /\ HandlerInitial
    /\ LookInitial
    /\ ShareInitial
    /\ StrInitial
    /\ ArrInitial
    /\ ThrInitial
    /\ HashInitial

NextJoin ==
    \/ \E h \in Handles, closure \in {0, TheClosure}, rc \in PthreadCreateResults,
          ub \in UBOutcomes :
          UBChoice(ub) /\ strada_thread_create(h, closure, rc, ub)
    \/ \E h \in Handles : strada_thread_wrapper(h)
    \/ \E h \in Handles, ub \in UBOutcomes :
          /\ UBChoice(ub) /\ Len(join_returns[h]) < MaxJoinCalls
          /\ strada_thread_join(h, ub)
    \/ \E h \in Handles : ~st[h].detached /\ strada_thread_detach(h)
    \/ \E ub \in UBOutcomes : UBChoice(ub) /\ strada_decref(TheClosure, ub)

SpecJoin == InitJoin /\ [][NextJoin]_vars

\* the threads whose ownership of the closure is still to be released:
\* started, and neither joined nor detached
Unreleased == {h \in Handles : st[h].alloc = "live" /\ ~st[h].detached}

\* C18 (as claimed): the closure's count is the caller's references plus
\* one for each started thread that has been neither joined nor detached, so
\* that it is zero, and the closure freed, once every thread is joined or
\* detached and the caller has dropped its own reference; a join returns the
\* value the closure returned.
C18_ThreadOwnershipReleasedOnce ==
    /\ refcount[TheClosure] = held[TheClosure] + Cardinality(Unreleased)
    /\ released[TheClosure] = (IF refcount[TheClosure] = 0 THEN 1 ELSE 0)
    /\ \A h \in Handles : st[h].alloc = "freed" /\ st[h].closure # 0
          => /\ st[h].result = ResultOf(h)
             /\ join_returns[h] # <<>> /\ join_returns[h][1] = st[h].result
             /\ \A i \in 2..Len(join_returns[h]) : join_returns[h][i] = FreshUndef

(***************************************************************************)
(* Threads sharing one array through several Values                        *)
(***************************************************************************)

\* model bound: the Values wrapping the array that one thread owns at a time
MaxWraps == 2

\* the value the shared array holds in its only element
Element == 1

RECURSIVE SumWraps(_)
SumWraps(ts) ==
    IF ts = {} THEN 0
    ELSE LET t == CHOOSE x \in ts : TRUE IN wraps[t] + SumWraps(ts \ {t})

otherShareVars ==
    <<iv, oop_packages, oop_initialized, excVars, hashVars, closVars, strVars,
      strada_default_array_capacity, thrVars, joinVars, call>>

\* strada_new_array_from_av(av), by a thread that owns a Value wrapping av:
\* av->refcount++ reads the count
FromAvLoad(t) ==
    /\ Running
    /\ share_pc[t] = "idle" /\ wraps[t] > 0
    /\ loaded' = [loaded EXCEPT ![t] = av.refcount]
    /\ share_pc' = [share_pc EXCEPT ![t] = "inc_store"]
    /\ UNCHANGED <<av, wraps, av_freed, typ, refcount, rv, blessed_package, rcVars,
                   oop_destroying, exit_status, otherShareVars, lookVars, handlerVars, aliasVars>>

\* av->refcount++ writes the count back; the thread owns the new Value
FromAvStore(t) ==
    /\ Running
    /\ share_pc[t] = "inc_store"
    /\ av' = [av EXCEPT !.refcount = loaded[t] + 1]
    /\ wraps' = [wraps EXCEPT ![t] = @ + 1]
    /\ share_pc' = [share_pc EXCEPT ![t] = "idle"]
    /\ UNCHANGED <<loaded, av_freed, typ, refcount, rv, blessed_package, rcVars,
                   oop_destroying, exit_status, otherShareVars, lookVars, handlerVars, aliasVars>>

\* the thread frees one of its Values: strada_free_value calls
\* strada_free_array(av), whose av->refcount-- reads the count
FreeArrayLoad(t) ==
    /\ Running
    /\ share_pc[t] = "idle" /\ wraps[t] > 0
    /\ loaded' = [loaded EXCEPT ![t] = av.refcount]
    /\ wraps' = [wraps EXCEPT ![t] = @ - 1]
    /\ share_pc' = [share_pc EXCEPT ![t] = "dec_store"]
    /\ UNCHANGED <<av, av_freed, typ, refcount, rv, blessed_package, rcVars,
                   oop_destroying, exit_status, otherShareVars, lookVars, handlerVars, aliasVars>>

\* av->refcount-- writes the count back
FreeArrayStore(t) ==
    /\ Running
    /\ share_pc[t] = "dec_store"
    /\ av' = [av EXCEPT !.refcount = loaded[t] - 1]
    /\ share_pc' = [share_pc EXCEPT ![t] = "dec_test"]
    /\ UNCHANGED <<loaded, wraps, av_freed, typ, refcount, rv, blessed_package, rcVars,
                   oop_destroying, exit_status, otherShareVars, lookVars, handlerVars, aliasVars>>

\* if (av->refcount > 0) return;
FreeArrayTest(t) ==
    /\ Running
    /\ share_pc[t] = "dec_test"
    /\ share_pc' = [share_pc EXCEPT ![t] = IF av.refcount > 0 THEN "idle" ELSE "free"]
    /\ UNCHANGED <<av, loaded, wraps, av_freed, typ, refcount, rv, blessed_package,
                   rcVars, oop_destroying, exit_status, otherShareVars, lookVars, handlerVars, aliasVars>>

\* strada_free_array: strada_decref of every element, free(av->elements),
\* free(av); on an array already freed the allocator may kill the process
FreeArrayRelease(t, ub) ==
    /\ Running
    /\ share_pc[t] = "free"
    /\ IF av_freed > 0 /\ ub = "crash"
       THEN /\ exit_status' = 134
            /\ UNCHANGED <<av_freed, typ, refcount, rv, blessed_package, released,
                           free_value_log, destroy_calls, oop_destroying, stack>>
       ELSE /\ Commit(Run(Heap, ElementDecrefs(av, 0), ub))
            /\ av_freed' = av_freed + 1
    /\ share_pc' = [share_pc EXCEPT ![t] = "idle"]
    /\ UNCHANGED <<av, loaded, wraps, held, otherShareVars, lookVars, handlerVars, aliasVars>>

InitShare ==
    /\ oop_packages = <<>>
    /\ oop_initialized = FALSE
    /\ oop_destroying = 0
    /\ typ = [v \in {Element} |-> "INT"]
    /\ refcount = [v \in {Element} |-> 1]
    /\ rv = [v \in {Element} |-> 0]
    /\ iv = [v \in {Element} |-> 7]
    /\ blessed_package = [v \in {Element} |-> NULL]
    /\ released = [v \in {Element} |-> 0]
    /\ free_value_log = [v \in {Element} |-> <<>>]
    /\ destroy_calls = [v \in {Element} |-> 0]
    /\ held = [v \in {Element} |-> 0]
    /\ stack = <<>>
    /\ strada_default_array_capacity = DEFAULT_ARRAY_CAPACITY
    /\ av = [elements |-> [i \in 1..DEFAULT_ARRAY_CAPACITY |->
                              IF i = 1 THEN Element ELSE 0],
             size |-> 1, capacity |-> DEFAULT_ARRAY_CAPACITY, refcount |-> MaxThreads]
    /\ share_pc = [t \in Threads |-> "idle"]
    /\ loaded = [t \in Threads |-> 0]
    /\ wraps = [t \in Threads |-> 1]
    /\ av_freed = 0
    /\ exit_status = -1
    /\ call = NoCall
    /\ ExcInitial
    /\ AliasInitial
    /\ HandlerInitial
    /\ LookInitial
    /\ StrInitial
    /\ ThrInitial
    /\ JoinInitial
    /\ HashInitial
    /\ ClosInitial

\* the threads enter a call on the array only while it is allocated
NextShare ==
    \/ \E t \in Threads :
          /\ av_freed = 0 /\ wraps[t] < MaxWraps /\ av.refcount < MaxThreads * MaxWraps
          /\ FromAvLoad(t)
    \/ \E t \in Threads : FromAvStore(t)
    \/ \E t \in Threads : av_freed = 0 /\ FreeArrayLoad(t)
    \/ \E t \in Threads : FreeArrayStore(t)
    \/ \E t \in Threads : FreeArrayTest(t)
    \/ \E t \in Threads, ub \in UBOutcomes : FreeArrayRelease(t, ub)

SpecShare == InitShare /\ [][NextShare]_vars

\* C20 (as claimed): under every interleaving the array is freed, and its
\* element decref'd, at most once and never while a Value still wraps it,
\* and it has been freed, the element decref'd once, when no Value wraps it
\* any more and no call is in progress.
C20_SharedContainerFreedOnce ==
    /\ Running
    /\ av_freed <= 1 /\ Len(free_value_log[Element]) <= 1
    /\ av_freed = 1 => SumWraps(Threads) = 0 /\ refcount[Element] = 0
    /\ (SumWraps(Threads) = 0 /\ \A t \in Threads : share_pc[t] = "idle")
          => av_freed = 1 /\ released[Element] = 1

(***************************************************************************)
(* Method lookup and isa as they execute: one C call or return per step    *)
(***************************************************************************)

\* model bounds: packages the program declares, calls the C stack can hold
MaxPkgs == 66
MaxCStack == 70

\* the package names "1", "2", ...
Name(i) == ToString(i)

\* what one call of oop_lookup_method_in / oop_isa_check does before its
\* parent loop: [ret, visited], ret being "null" or "found" when the call
\* returns at once and "loop" when it goes on to its parents
LookupEnter(op, arg, pkgs, package, visited) ==
    IF package = NULL \/ package = ""
    THEN [ret |-> "null", visited |-> visited]
    ELSE IF op = "isa" /\ package = arg
    THEN [ret |-> "found", visited |-> visited]
    ELSE IF \E i \in DOMAIN visited : visited[i] = package
    THEN [ret |-> "null", visited |-> visited]
    ELSE LET v2 == MarkVisited(visited, package)
             k == oop_find_package(pkgs, package)
         IN  IF k = 0 THEN [ret |-> "null", visited |-> v2]
             ELSE IF op = "can" /\ MethodIndex(pkgs[k].methods, arg) # 0
             THEN [ret |-> "found", visited |-> v2]
             ELSE [ret |-> "loop", visited |-> v2]

\* the call on package is made with the callers stk on the stack: it returns
\* at once (through every caller, when it found something), or it becomes
\* the innermost call, or the stack has no room for it and the process dies
LookupInvoke(op, arg, package, stk, visited) ==
    LET e == LookupEnter(op, arg, oop_packages, package, visited)
    IN  /\ lk_visited' = e.visited
        /\ IF e.ret = "found"
           THEN /\ lk_stack' = <<>> /\ lk_op' = "none" /\ lk_arg' = NULL
                /\ lk_result' = 1
                /\ UNCHANGED exit_status
           ELSE IF e.ret = "null" /\ stk = <<>>
           THEN /\ lk_stack' = <<>> /\ lk_op' = "none" /\ lk_arg' = NULL
                /\ lk_result' = 0
                /\ UNCHANGED exit_status
           ELSE IF e.ret = "null"
           THEN /\ lk_stack' = stk /\ lk_op' = op /\ lk_arg' = arg
                /\ UNCHANGED <<lk_result, exit_status>>
           ELSE IF Len(stk) >= MaxCStack
           THEN /\ lk_stack' = stk /\ lk_op' = op /\ lk_arg' = arg
                /\ exit_status' = 139
                /\ UNCHANGED lk_result
           ELSE /\ lk_stack' = <<[pkg |-> package, i |-> 1, vc |-> Len(visited)]>> \o stk
                /\ lk_op' = op /\ lk_arg' = arg
                /\ UNCHANGED <<lk_result, exit_status>>

\* int strada_can(StradaValue *obj, const char *method), up to the return
\* of its first step: oop_lookup_method calls oop_lookup_method_in
strada_can_call(obj, method) ==
    /\ Idle /\ lk_op = "none"
    /\ IF obj = 0 \/ method = NULL
       THEN /\ lk_result' = 0
            /\ UNCHANGED <<lk_op, lk_arg, lk_stack, lk_visited, exit_status>>
       ELSE IF blessed_package[obj] = NULL \/ ~oop_initialized
       THEN /\ lk_result' = 0
            /\ UNCHANGED <<lk_op, lk_arg, lk_stack, lk_visited, exit_status>>
       ELSE LookupInvoke("can", method, blessed_package[obj], <<>>, <<>>)
    /\ UNCHANGED <<oopVars, heapVars, excVars, rcVars, hashVars, closVars, call, strVars, arrVars, thrVars, joinVars, shareVars, handlerVars, aliasVars>>

\* int strada_isa(StradaValue *obj, const char *package), up to the return
\* of its first step: the first call of oop_isa_check
strada_isa_call(obj, package) ==
    /\ Idle /\ lk_op = "none"
    /\ IF obj = 0 \/ package = NULL
       THEN /\ lk_result' = 0
            /\ UNCHANGED <<lk_op, lk_arg, lk_stack, lk_visited, exit_status>>
       ELSE IF blessed_package[obj] = NULL \/ ~oop_initialized
       THEN /\ lk_result' = 0
            /\ UNCHANGED <<lk_op, lk_arg, lk_stack, lk_visited, exit_status>>
       ELSE LookupInvoke("isa", package, blessed_package[obj], <<>>, <<>>)
    /\ UNCHANGED <<oopVars, heapVars, excVars, rcVars, hashVars, closVars, call, strVars, arrVars, thrVars, joinVars, shareVars, handlerVars, aliasVars>>

\* the innermost call's parent loop: for (i = 0; i < pkg->parent_count; i++)
\* calls itself on pkg->parents[i]
LookupLoopCall ==
    /\ Running /\ lk_op # "none"
    /\ LET top == Head(lk_stack)
           parents == ParentsOf(top.pkg)
       IN  /\ top.i <= Len(parents)
           /\ LookupInvoke(lk_op, lk_arg, parents[top.i],
                           <<[top EXCEPT !.i = @ + 1]>> \o Tail(lk_stack), lk_visited)
    /\ UNCHANGED <<oopVars, heapVars, excVars, rcVars, hashVars, closVars, call, strVars, arrVars, thrVars, joinVars, shareVars, handlerVars, aliasVars>>

\* the innermost call's parent loop is over: return NULL / return 0
LookupLoopEnd ==
    /\ Running /\ lk_op # "none"
    /\ Head(lk_stack).i > Len(ParentsOf(Head(lk_stack).pkg))
    /\ lk_stack' = Tail(lk_stack)
    /\ IF Tail(lk_stack) = <<>>
       THEN lk_op' = "none" /\ lk_arg' = NULL /\ lk_result' = 0
       ELSE UNCHANGED <<lk_op, lk_arg, lk_result>>
    /\ UNCHANGED <<lk_visited, exit_status>>
    /\ UNCHANGED <<oopVars, heapVars, excVars, rcVars, hashVars, closVars, call, strVars, arrVars, thrVars, joinVars, shareVars, handlerVars, aliasVars>>

InitLookup ==
    /\ oop_packages = <<>>
    /\ oop_initialized = FALSE
    /\ oop_destroying = 0
    /\ typ = [v \in OopVals |-> IF v = 1 THEN "INT" ELSE "REF"]
    /\ refcount = [v \in OopVals |-> IF v = 1 THEN 2 ELSE 1]
    /\ rv = [v \in OopVals |-> IF v = 1 THEN 0 ELSE 1]
    /\ iv = [v \in OopVals |-> IF v = 1 THEN 7 ELSE 0]
    /\ blessed_package = [v \in OopVals |-> NULL]
    /\ exit_status = -1
    /\ call = NoCall
    /\ ExcInitial
    /\ AliasInitial
    /\ HandlerInitial
    /\ LookInitial
    /\ ShareInitial
    /\ JoinInitial
    /\ ThrInitial
    /\ ArrInitial
    /\ StrInitial
    /\ RcInitial
    /\ HashInitial
    /\ ClosInitial

\* the program declares the chain 1 <- 2 <- ... (package i inherits from
\* i + 1) in order, and at any time an edge back from the end of the chain,
\* an edge back near its start, and a method in package 3
BackEdges == {<<MaxPkgs, MaxPkgs - 1>>, <<3, 1>>}
LookupStarts == {1, MaxPkgs - 1}

NextLookup ==
    \/ /\ lk_op = "none" /\ Len(oop_packages) < MaxPkgs
       /\ LET n == IF oop_packages = <<>> THEN 1 ELSE Len(oop_packages)
          IN  strada_inherit(Name(n), Name(n + 1))
    \/ \E e \in BackEdges :
          /\ lk_op = "none"
          /\ Registered(Name(e[1])) /\ Registered(Name(e[2]))
          /\ strada_inherit(Name(e[1]), Name(e[2]))
    \/ /\ lk_op = "none" /\ Registered(Name(3)) /\ ~Defines(Name(3), "n")
       /\ strada_method_register(Name(3), "n", "fA")
    \/ \E p \in LookupStarts :
          /\ lk_op = "none" /\ Registered(Name(p))
          /\ blessed_package[2] # Name(p)
          /\ strada_bless(2, Name(p))
    \/ \E m \in MethodNames : strada_can_call(2, m)
    \/ strada_isa_call(2, "UNIVERSAL")
    \/ LookupLoopCall
    \/ LookupLoopEnd

SpecLookup == InitLookup /\ [][NextLookup]_vars

\* the call at position a of the recursion is on the package, and has the
\* visited[] array, of the call at position b that is waiting for it: it
\* does what that call did, and so on without end
RepeatsCaller(a, b) ==
    /\ a < b
    /\ lk_stack[a].pkg = lk_stack[b].pkg
    /\ lk_stack[a].vc = lk_stack[b].vc

\* C21 (as claimed): on every graph strada_inherit can build, with cycles
\* and with more reachable packages than visited[] can record, every
\* strada_can and strada_isa returns: no call of the recursion repeats one
\* of its callers, and the recursion never exhausts the stack.
C21_LookupTerminates ==
    /\ \A a, b \in DOMAIN lk_stack : ~RepeatsCaller(a, b)
    /\ lk_op # "none" => Running

(***************************************************************************)
(* Threads in try regions: every thread uses the one strada_try_stack,     *)
(* strada_try_depth and strada_exception_msg of the process                *)
(***************************************************************************)

\* the two threads of the program, and the model bound on the try regions
\* each of them nests
ExcThreads == {1, 2}
MaxThreadNest == 1

\* the try region of thread t's code and the message thread t throws
SiteOf(t) == "try" \o ToString(t)
MsgOf(t) == <<98, 48 + t>>

\* strada_get_exception reading a slot of the calling thread's own
GetExceptionOwn(t) == strada_new_str(MsgOf(t))

\* strada_get_exception called by thread t: it reads the global slot
GetException(t) == strada_get_exception

\* thread t enters a try region: STRADA_TRY_PUSH() and setjmp
ThreadTryPush(t) ==
    /\ exc_pc[t] = "run"
    /\ STRADA_TRY_PUSH(SiteOf(t))
    /\ exc_nest' = [exc_nest EXCEPT ![t] = @ + 1]
    /\ UNCHANGED <<exc_pc, caught>>

\* thread t leaves a try region or ends a handler: STRADA_TRY_POP()
ThreadTryPop(t) ==
    /\ exc_pc[t] = "handler" \/ (exc_pc[t] = "run" /\ exc_nest[t] > 0)
    /\ STRADA_TRY_POP
    /\ exc_nest' = [exc_nest EXCEPT ![t] = IF @ > 0 THEN @ - 1 ELSE 0]
    /\ exc_pc' = [exc_pc EXCEPT ![t] = "run"]
    /\ UNCHANGED caught

\* thread t calls strada_throw: the longjmp takes it to the handler of the
\* selected frame; when another thread's setjmp filled that jmp_buf the
\* behaviour is undefined: the thread runs that handler or is lost
ThreadThrow(t, outcome) ==
    /\ exc_pc[t] \in {"run", "handler"}
    /\ strada_throw(MsgOf(t))
    /\ IF ~strada_in_try_block THEN UNCHANGED exc_pc
       ELSE IF strada_try_stack[ThrowTarget(strada_try_depth)].buf = SiteOf(t)
       THEN exc_pc' = [exc_pc EXCEPT ![t] = "handler"]
       ELSE exc_pc' = [exc_pc EXCEPT ![t] = outcome]
    /\ UNCHANGED <<exc_nest, caught>>

\* thread t, in a handler, calls strada_get_exception
ThreadGetException(t) ==
    /\ Running
    /\ exc_pc[t] = "handler"
    /\ caught' = [caught EXCEPT ![t] = GetException(t)]
    /\ UNCHANGED <<exc_pc, exc_nest, excVars, oopVars, heapVars, rcVars, hashVars, closVars,
                   exit_status, call, strVars, arrVars, thrVars, joinVars, shareVars, lookVars, aliasVars>>

InitExcThreads ==
    /\ ExcInitial
    /\ AliasInitial
    /\ exc_pc = [t \in ExcThreads |-> "run"]
    /\ exc_nest = [t \in ExcThreads |-> 0]
    /\ caught = [t \in ExcThreads |-> strada_new_str(<<>>)]
    /\ LookInitial
    /\ ShareInitial
    /\ JoinInitial
    /\ ThrInitial
    /\ ArrInitial
    /\ StrInitial
    /\ RcInitial
    /\ HashInitial
    /\ ClosInitial
    /\ oop_packages = <<>>
    /\ oop_initialized = FALSE
    /\ oop_destroying = 0
    /\ typ = <<>> /\ refcount = <<>> /\ rv = <<>> /\ iv = <<>>
    /\ blessed_package = <<>>
    /\ exit_status = -1
    /\ call = NoCall

LongjmpOutcomes == {"handler", "lost"}

NextExcThreads ==
    \/ \E t \in ExcThreads : exc_nest[t] < MaxThreadNest /\ ThreadTryPush(t)
    \/ \E t \in ExcThreads : ThreadTryPop(t)
    \/ \E t \in ExcThreads, o \in LongjmpOutcomes : ThreadThrow(t, o)
    \/ \E t \in ExcThreads : ThreadGetException(t)

SpecExcThreads == InitExcThreads /\ [][NextExcThreads]_vars

\* the frame a throw by t selects is the last frame pushed and not popped
\* in the whole process, thread t's or not
C24_ThrowStep ==
    \A t \in ExcThreads, o \in LongjmpOutcomes :
        (ThreadThrow(t, o) /\ strada_in_try_block) =>
            /\ last_throw'.target = NearestFrame
            /\ last_throw'.payload = StrLenVal(MsgOf(t))

\* what get_exception hands to t is the payload of the last throw of the
\* whole process, thread t's or not
C24_GetStep ==
    \A t \in ExcThreads :
        (ThreadGetException(t) /\ last_throw.op = "throw") =>
            caught'[t] = strada_new_str(last_throw.payload.pv)

\* C24: the try-stack and the exception slot are those of the process: a
\* throw by any thread selects the frame on top of the one stack, whichever
\* thread pushed it, and strada_get_exception returns to any thread the
\* payload thrown last, whichever thread threw it.
C24_ProcessWideExceptions == [][C24_ThrowStep /\ C24_GetStep]_vars

\* C24 witness: thread t's throw selected a frame thread u pushed, and u, in
\* a handler, got t's payload from strada_get_exception
C24_Witness ==
    \E t, u \in ExcThreads :
        /\ t # u
        /\ last_throw.payload = StrLenVal(MsgOf(t))
        /\ last_throw.target = SiteOf(u)
        /\ exc_pc[u] = "handler"
        /\ caught[u] = strada_new_str(MsgOf(t))

(***************************************************************************)
(* Storing an element back into its own slot                               *)
(***************************************************************************)

\* the keys the program stores under
StoreKeys == {<<97>>, <<98>>}

\* the program makes an array and a hash, stores values in them, gives up
\* its own references, reads an element and stores it where it was
NextStore ==
    \/ av = NoArray /\ strada_array_new
    \/ hv = NoHash /\ strada_hash_new
    \/ (av # NoArray \/ hv # NoHash) /\ strada_new_int(7)
    \/ \E sv \in ArrVals, ub \in UBOutcomes :
          /\ UBChoice(ub)
          /\ av.size < MaxArrLen /\ released[sv] = 0
          /\ strada_array_push(sv, ub)
    \/ \E k \in StoreKeys, sv \in ArrVals, ub \in UBOutcomes :
          /\ UBChoice(ub)
          /\ hv # NoHash /\ held[sv] > 0 /\ released[sv] = 0
          /\ ~strada_hash_exists(hv, k)
          /\ strada_hash_set(k, sv, ub)
    \/ \E sv \in ArrVals, ub \in UBOutcomes : UBChoice(ub) /\ strada_decref(sv, ub)
    \/ \E idx \in Indices, ub \in UBOutcomes :
          /\ av # NoArray
          /\ strada_array_get(av, idx) # FreshUndef
          /\ released[strada_array_get(av, idx)] = 0
          /\ strada_array_set(idx, strada_array_get(av, idx), ub)
    \/ \E k \in StoreKeys, ub \in UBOutcomes :
          /\ hv # NoHash
          /\ strada_hash_exists(hv, k)
          /\ released[strada_hash_get(hv, k)] = 0
          /\ strada_hash_set(k, strada_hash_get(hv, k), ub)

SpecStore == InitArray /\ [][NextStore]_vars

\* the call left v as it was: not freed, its count unchanged
Untouched(v) ==
    /\ Running'
    /\ released'[v] = released[v]
    /\ free_value_log'[v] = free_value_log[v]
    /\ refcount'[v] = refcount[v]

C26_ArraySetStep ==
    \A idx \in Indices, ub \in UBOutcomes :
        LET v == strada_array_get(av, idx)
        IN  ( /\ av # NoArray /\ v # FreshUndef
              /\ released[v] = 0
              /\ strada_array_set(idx, v, ub) ) => Untouched(v)

C26_HashSetStep ==
    \A k \in StoreKeys, ub \in UBOutcomes :
        LET v == strada_hash_get(hv, k)
        IN  ( /\ hv # NoHash /\ strada_hash_exists(hv, k)
              /\ released[v] = 0
              /\ strada_hash_set(k, v, ub) ) => Untouched(v)

\* C26 (as claimed): strada_array_set(av, i, v) with v already element i,
\* and strada_hash_set(hv, k, v) with v already the value of k, never free v
\* and leave its count unchanged, also when the container's reference is
\* the only one.
C26_StoreSameValue == [][C26_ArraySetStep /\ C26_HashSetStep]_vars

(***************************************************************************)
(* Values that share one container                                         *)
(***************************************************************************)

\* model bound: value ids malloc hands out
MaxAliasVals == 8
AliasVals == 1..MaxAliasVals

\* the program's values: the array's element, the hash's entry, the Array
\* value, the Hash value, a scalar and a Reference to the scalar
AliasIds == [element |-> 1, entry |-> 2, array |-> 3, hash |-> 4,
             referent |-> 5, ref |-> 6]

\* what the int at offset 4 of a container is, by the build's pointer size:
\* the upper half of the storage pointer (8-byte pointers, little endian) or
\* the member after the storage pointer (4-byte pointers)
Layouts == {"LP64", "ILP32"}

\* strada_incref((StradaValue*)av): ++ of the int at the offset of
\* StradaValue.refcount, inside the StradaArray
IncrefCastArray(a, layout) ==
    IF layout = "LP64" THEN [a EXCEPT !.elements = WildPointer]
    ELSE [a EXCEPT !.size = @ + 1]

\* strada_incref((StradaValue*)hv), inside the StradaHash
IncrefCastHash(h, layout) ==
    IF layout = "LP64" THEN [h EXCEPT !.buckets = WildPointer]
    ELSE [h EXCEPT !.num_buckets = @ + 1]

\* strada_new_array / strada_new_hash followed by strada_ref_create: the
\* Value sv of the given type, counted once by its constructor and once by
\* the Reference ref, which the caller owns
WrapAndRef(type, sv, ref) ==
    /\ typ' = [typ EXCEPT ![sv] = type, ![ref] = "REF"]
    /\ refcount' = [refcount EXCEPT ![sv] = 2, ![ref] = 1]
    /\ rv' = [rv EXCEPT ![ref] = sv]
    /\ blessed_package' = [blessed_package EXCEPT ![sv] = NULL, ![ref] = NULL]
    /\ held' = [held EXCEPT ![ref] = 1]
    /\ orphaned' = orphaned + 1

\* StradaValue* strada_ref_array(StradaArray **ptr), *ptr the program's array
strada_ref_array(layout) ==
    /\ Running
    /\ av # NoArray /\ Cardinality(FreeIds) >= 2
    /\ LET ids == FreshIds(FreeIds, 2) IN WrapAndRef("ARRAY", ids[1], ids[2])
    /\ av' = IncrefCastArray(av, layout)
    /\ UNCHANGED <<iv, released, free_value_log, destroy_calls, stack, oopVars, excVars,
                   hashVars, closVars, strVars, exit_status, call,
                   strada_default_array_capacity, thrVars, joinVars, shareVars,
                   lookVars, handlerVars, hv_freed>>

\* StradaValue* strada_ref_hash(StradaHash **ptr), *ptr the program's hash
strada_ref_hash(layout) ==
    /\ Running
    /\ hv # NoHash /\ Cardinality(FreeIds) >= 2
    /\ LET ids == FreshIds(FreeIds, 2) IN WrapAndRef("HASH", ids[1], ids[2])
    /\ hv' = IncrefCastHash(hv, layout)
    /\ UNCHANGED <<iv, released, free_value_log, destroy_calls, stack, oopVars, excVars,
                   strada_default_hash_capacity, hash_model, closVars, strVars,
                   exit_status, call, arrVars, thrVars, joinVars, shareVars,
                   lookVars, handlerVars, hv_freed>>

\* the key "a"
AliasKey == <<97>>

\* a default-capacity hash holding AliasIds.entry under "a"
AliasHash ==
    LET empty == [buckets |-> [i \in 1..DEFAULT_HASH_CAPACITY |-> <<>>],
                  num_buckets |-> DEFAULT_HASH_CAPACITY, num_entries |-> 0,
                  refcount |-> 1]
    IN  [empty EXCEPT !.buckets[BucketOf(empty, AliasKey) + 1] =
                          <<[key |-> AliasKey, value |-> AliasIds.entry]>>,
                      !.num_entries = 1]

\* the program has built an array of one element and a hash of one entry,
\* each in a Value of its own, and a Reference to a scalar
InitAlias ==
    /\ oop_packages = <<>>
    /\ oop_initialized = FALSE
    /\ oop_destroying = 0
    /\ typ = [v \in AliasVals |->
                 CASE v \in {AliasIds.element, AliasIds.entry, AliasIds.referent} -> "INT"
                   [] v = AliasIds.array -> "ARRAY"
                   [] v = AliasIds.hash -> "HASH"
                   [] v = AliasIds.ref -> "REF"
                   [] OTHER -> "NONE"]
    /\ refcount = [v \in AliasVals |->
                      IF v = AliasIds.referent THEN 2 ELSE IF v <= AliasIds.ref THEN 1 ELSE 0]
    /\ rv = [v \in AliasVals |-> IF v = AliasIds.ref THEN AliasIds.referent ELSE 0]
    /\ iv = [v \in AliasVals |-> IF v <= AliasIds.ref THEN 7 ELSE 0]
    /\ blessed_package = [v \in AliasVals |-> NULL]
    /\ pv = [v \in AliasVals |-> NoString]
    /\ struct_size = [v \in AliasVals |-> 0]
    /\ released = [v \in AliasVals |-> 0]
    /\ free_value_log = [v \in AliasVals |-> <<>>]
    /\ destroy_calls = [v \in AliasVals |-> 0]
    /\ held = [v \in AliasVals |->
                  IF v \in {AliasIds.array, AliasIds.hash, AliasIds.referent, AliasIds.ref} THEN 1 ELSE 0]
    /\ stack = <<>>
    /\ strada_default_array_capacity = DEFAULT_ARRAY_CAPACITY
    /\ av = [elements |-> [i \in 1..DEFAULT_ARRAY_CAPACITY |->
                              IF i = 1 THEN AliasIds.element ELSE 0],
             size |-> 1, capacity |-> DEFAULT_ARRAY_CAPACITY, refcount |-> 1]
    /\ strada_default_hash_capacity = DEFAULT_HASH_CAPACITY
    /\ hv = AliasHash
    /\ hash_model = [k \in Keys |-> IF k = AliasKey THEN AliasIds.entry ELSE 0]
    /\ exit_status = -1
    /\ call = NoCall
    /\ ExcInitial
    /\ AliasInitial
    /\ HandlerInitial
    /\ LookInitial
    /\ ShareInitial
    /\ ThrInitial
    /\ JoinInitial
    /\ ClosInitial

\* the program passes its containers to the runtime only while they are
\* allocated
NextAlias ==
    \/ \E new_value \in {AliasIds.array, AliasIds.hash} :
          /\ refcount[new_value] < MaxDsCount
          /\ strada_deref_set(AliasIds.ref, new_value)
    \/ \E layout \in Layouts : av_freed = 0 /\ strada_ref_array(layout)
    \/ \E layout \in Layouts : hv_freed = 0 /\ strada_ref_hash(layout)
    \/ \E sv \in AliasVals, ub \in UBOutcomes : strada_decref(sv, ub)

SpecAlias == InitAlias /\ [][NextAlias]_vars

\* how many times the container of an Array or Hash value was freed
FreedOf(v) == IF typ[v] = "ARRAY" THEN av_freed ELSE hv_freed

\* C27 (as claimed): once strada_deref_set has made the referent hold the
\* container of the Array or Hash value v, the container is allocated as
\* long as the referent or v is, and has been freed exactly once when both
\* have been freed.
C27_SharedContainerOutlivesValues ==
    \A v \in {AliasIds.array, AliasIds.hash} :
        typ[AliasIds.referent] = typ[v] =>
            /\ (Allocated(AliasIds.referent) \/ Allocated(v)) => FreedOf(v) = 0
            /\ (released[AliasIds.referent] > 0 /\ released[v] > 0) => FreedOf(v) = 1

\* C30 (as claimed): strada_ref_array and strada_ref_hash raise the
\* container's own count by exactly one and change nothing else in it, and
\* releasing the Reference they returned frees neither container and leaves
\* what the containers hold as it was.
C30_RefArrayStep ==
    \A layout \in Layouts :
        (av_freed = 0 /\ strada_ref_array(layout)) => av' = [av EXCEPT !.refcount = @ + 1]

C30_RefHashStep ==
    \A layout \in Layouts :
        (hv_freed = 0 /\ strada_ref_hash(layout)) => hv' = [hv EXCEPT !.refcount = @ + 1]

C30_ReleaseStep ==
    \A ref \in AliasVals, ub \in UBOutcomes :
        (/\ ref > AliasIds.ref /\ typ[ref] = "REF"
         /\ strada_decref(ref, ub)) =>
            /\ av_freed' = av_freed /\ hv_freed' = hv_freed
            /\ av'.elements = av.elements /\ av'.size = av.size
            /\ hv'.buckets = hv.buckets /\ hv'.num_entries = hv.num_entries

C30_RefSharesContainer == [][C30_RefArrayStep /\ C30_RefHashStep /\ C30_ReleaseStep]_vars

(***************************************************************************)
(* A method table filled to its capacity                                   *)
(***************************************************************************)

\* model bound: the method names "1", "2", ... the program registers in
\* package A, one more than the table holds
MaxTableNames == 257

\* pkg->method_count of package A, 0 while A is not declared
MethodCount(pkgs) ==
    IF oop_find_package(pkgs, "A") = 0 THEN 0
    ELSE Len(pkgs[oop_find_package(pkgs, "A")].methods)

\* the names the program registers a second time: the first and the last
\* the table holds
Reregistered == {Name(1), Name(OOP_MAX_METHODS)}

\* the program registers its names in order, and some of them again
NextTable ==
    \/ /\ MethodCount(oop_packages) < MaxTableNames
       /\ strada_method_register("A", Name(MethodCount(oop_packages) + 1), "fA")
    \/ \E name \in Reregistered, func \in Funcs :
          /\ oop_initialized
          /\ oop_lookup_method(oop_packages, oop_initialized, "A", name) # NULL
          /\ strada_method_register("A", name, func)

SpecTable == InitOOP /\ [][NextTable]_vars

\* C29 (as claimed): registering a name the package already has puts the new
\* function in the name's place, keeps method_count, never ends the process
\* and makes lookups return the new function, full table or not
C29_ReplaceStep ==
    \A name \in Reregistered, func \in Funcs :
        (/\ oop_initialized
         /\ oop_lookup_method(oop_packages, oop_initialized, "A", name) # NULL
         /\ strada_method_register("A", name, func)) =>
            /\ exit_status' = -1
            /\ MethodCount(oop_packages') = MethodCount(oop_packages)
            /\ oop_lookup_method(oop_packages', TRUE, "A", name) = func

\* C29 (as claimed): only a new name registered into a full table is fatal
C29_NewNameStep ==
    \A i \in 1..MaxTableNames :
        (/\ MethodCount(oop_packages) = i - 1
         /\ strada_method_register("A", Name(i), "fA")) =>
            IF i - 1 >= OOP_MAX_METHODS THEN exit_status' = 1
            ELSE /\ exit_status' = -1
                 /\ MethodCount(oop_packages') = i
                 /\ oop_lookup_method(oop_packages', TRUE, "A", Name(i)) = "fA"

C29_ReregisterNeverFails == [][C29_ReplaceStep /\ C29_NewNameStep]_vars

====
